---- MODULE Spec2Model ----
(***************************************************************************)
(* Routing core of the maritime twin: GraphIndex (load, dateline bridges,  *)
(* blockade sets) and DijkstraRouter.findPath (A* over the adjacency).     *)
(*                                                                         *)
(* Units.  Distances are integers in metres (dist_km 0.001 is 1).          *)
(* Latitudes and longitudes are integers in tenths of a degree.  Delay     *)
(* penalties are whole hours.                                              *)
(***************************************************************************)
EXTENDS Integers, Sequences, FiniteSets, TLC

(***************************************************************************)
(* Bounds of the model.                                                    *)
(***************************************************************************)
\* largest number of source edges in a loaded payload
MaxEdges == 4
\* largest delay (hours) a caller supplies for a chokepoint
MaxDelayHours == 1
\* largest number of points of an edge geometry
MaxPoints == 2
\* largest number of segments handed to a geometry function
MaxSegments == 2
\* largest number of points of a polyline handed to unwrapAntimeridian
MaxCoords == 4
\* largest number of nodes handed to addDatelineBridges on its own
MaxBridgeNodes == 3
\* resolution of the playback clock: hours are counted in 1 / HourScale hours
HourScale == 2

(***************************************************************************)
(* Program constants.                                                      *)
(***************************************************************************)
\* Dijkstra.ts: SHIP_SPEED_KM_H = 40.74 km/h, in metres per hour
SHIP_SPEED_KM_H == 40740
\* dateline.ts: bridgeCostKm = 0.001 km, in metres
bridgeCostKm == 1
\* dateline.ts heuristic: R * PI / 180 for R = 6371 km, in metres per
\* hundredth of a degree (1111.949 rounded)
MetresPerCentiDegree == 1112
\* geo.ts stitchRouteSegments: epsilonKm = 0.01 km, in metres
epsilonKm == 10
\* output coordinates of getPointAlongRoute: thousandths of a coordinate unit
FineScale == 1000

(***************************************************************************)
(* Small helpers.                                                          *)
(***************************************************************************)
Abs(x) == IF x < 0 THEN -x ELSE x

RECURSIVE ISqrtB(_, _, _)
\* largest r in lo..hi with r*r <= n  (Math.sqrt, rounded down)
ISqrtB(n, lo, hi) ==
    IF lo >= hi THEN lo
    ELSE LET mid == (lo + hi + 1) \div 2
         IN  IF mid * mid <= n THEN ISqrtB(n, mid, hi) ELSE ISqrtB(n, lo, mid - 1)

ISqrt(n) == ISqrtB(n, 0, 46340)

RECURSIVE SeqSum(_)
SeqSum(s) == IF s = << >> THEN 0 ELSE Head(s) + SeqSum(Tail(s))

SeqToSet(s) == { s[i] : i \in 1..Len(s) }

\* the sum of dist_km over a sequence of edges
SumDist(edges) == SeqSum([i \in 1..Len(edges) |-> edges[i].dist_km])

EmptyMap == [x \in {} |-> 0]

\* m with key k set to v (object property assignment m[k] = v)
Put(m, k, v) == [x \in (DOMAIN m) \cup {k} |-> IF x = k THEN v ELSE m[x]]

(***************************************************************************)
(* types.ts: Node, Edge, Port.                                             *)
(***************************************************************************)
Node(id, lat, lon) == [id |-> id, lat |-> lat, lon |-> lon]

Edge(source, target, dist_km, chokepoints, lane_id) ==
    [source |-> source, target |-> target, dist_km |-> dist_km,
     chokepoints |-> chokepoints, lane_id |-> lane_id]

\* nodes is kept as the sequence of Node records in key order of the
\* payload object (the order Object.values yields)
NodeIds(nodes) == { nodes[i].id : i \in 1..Len(nodes) }

HasNode(nodes, id) == id \in NodeIds(nodes)

\* this.graph.nodes[id] for an id that is a key
NodeAt(nodes, id) == nodes[CHOOSE i \in 1..Len(nodes) : nodes[i].id = id]

(***************************************************************************)
(* dateline.ts                                                             *)
(***************************************************************************)
RECURSIVE wrappedLonDelta(_, _)
wrappedLonDelta(lon1, lon2) ==
    LET delta == lon2 - lon1
    IN  IF delta > 1800 THEN wrappedLonDelta(lon1 + 3600, lon2)
        ELSE IF delta < -1800 THEN wrappedLonDelta(lon1 - 3600, lon2)
        ELSE delta

\* Haversine great-circle distance in metres.  Every model node lies within
\* one degree of the equator, where cos(lat) >= 0.9998 and the haversine
\* formula gives R * sqrt(dLat^2 + dLon^2) (exactly R * |dLon| on the
\* equator itself).
heuristic(nodeA, nodeB) ==
    LET dLat == nodeB.lat - nodeA.lat
        dLon == wrappedLonDelta(nodeA.lon, nodeB.lon)
    IN  IF dLat = 0 THEN 10 * Abs(dLon) * MetresPerCentiDegree
        ELSE ISqrt(100 * (dLat * dLat + dLon * dLon)) * MetresPerCentiDegree

\* candidatesNeg / candidatesPos, in Object.values order
candidatesNeg(nodes) == SelectSeq(nodes, LAMBDA n : n.lon <= -1795)

candidatesPos(nodes) == SelectSeq(nodes, LAMBDA n : ~(n.lon <= -1795) /\ n.lon >= 1795)

\* squared "wrapped" degree distance of the inner loop (dist * dist)
BridgeDist2(u, v) ==
    LET dLat == Abs(u.lat - v.lat)
        dLon == 3600 - (v.lon - u.lon)
    IN  dLat * dLat + dLon * dLon

RECURSIVE BestMatch_m(_, _, _, _)
\* inner loop without the latitude tolerance
BestMatch_m(u, pos, j, acc) ==
    IF j > Len(pos) THEN acc
    ELSE IF acc.min2 = -1 \/ BridgeDist2(u, pos[j]) < acc.min2
         THEN BestMatch_m(u, pos, j + 1, [best |-> j, min2 |-> BridgeDist2(u, pos[j])])
         ELSE BestMatch_m(u, pos, j + 1, acc)

RECURSIVE BestMatch(_, _, _, _)
\* inner loop over candidatesPos from index j: best is 0 (null) or the index
\* of bestV, min2 is minDist squared (-1 for Infinity)
BestMatch(u, pos, j, acc) ==
    IF j > Len(pos) THEN acc
    ELSE LET v == pos[j]
             d2 == BridgeDist2(u, v)
         IN  IF Abs(u.lat - v.lat) > 5 THEN BestMatch(u, pos, j + 1, acc)
             ELSE IF acc.min2 = -1 \/ d2 < acc.min2
                  THEN BestMatch(u, pos, j + 1, [best |-> j, min2 |-> d2])
                  ELSE BestMatch(u, pos, j + 1, acc)

\* adjList[id].push(edge), creating the entry when missing
AdjPush(adjList, id, edge) ==
    IF id \in DOMAIN adjList THEN [adjList EXCEPT ![id] = Append(@, edge)]
    ELSE Put(adjList, id, << edge >>)

RECURSIVE BridgeLoop(_, _, _, _)
\* outer loop over candidatesNeg from index i
BridgeLoop(neg, pos, i, adjList) ==
    IF i > Len(neg) THEN adjList
    ELSE LET u == neg[i]
             m == BestMatch(u, pos, 1, [best |-> 0, min2 |-> -1])
         IN  IF m.best # 0 /\ m.min2 < 400
             THEN LET bestV == pos[m.best]
                      edge1 == Edge(u.id, bestV.id, bridgeCostKm, << >>,
                                    "DATELINE_BRIDGE_" \o u.id \o "_" \o bestV.id)
                      edge2 == Edge(bestV.id, u.id, bridgeCostKm, << >>,
                                    "DATELINE_BRIDGE_" \o bestV.id \o "_" \o u.id)
                  IN  BridgeLoop(neg, pos, i + 1,
                                 AdjPush(AdjPush(adjList, u.id, edge1), bestV.id, edge2))
             ELSE BridgeLoop(neg, pos, i + 1, adjList)

\* addDatelineBridges that adds no bridge
addDatelineBridges_m(nodes, adjList) == adjList

addDatelineBridges(nodes, adjList) ==
    BridgeLoop(candidatesNeg(nodes), candidatesPos(nodes), 1, adjList)

(***************************************************************************)
(* GraphIndex                                                              *)
(***************************************************************************)
RECURSIVE BuildAdj_m(_, _, _)
\* indexing that lists an edge under its source only
BuildAdj_m(edges, i, adjList) ==
    IF i > Len(edges) THEN adjList
    ELSE BuildAdj_m(edges, i + 1, AdjPush(adjList, edges[i].source, edges[i]))

RECURSIVE BuildAdj(_, _, _)
\* data.edges.forEach: every edge is listed under both endpoints
BuildAdj(edges, i, adjList) ==
    IF i > Len(edges) THEN adjList
    ELSE BuildAdj(edges, i + 1,
                  AdjPush(AdjPush(adjList, edges[i].source, edges[i]),
                          edges[i].target, edges[i]))

\* the adjacency loadFromData leaves behind
LoadAdj(data) == addDatelineBridges(data.nodes, BuildAdj(data.edges, 1, EmptyMap))

\* togglePort that never re-opens a port
togglePortSet_m(disabled, portId) == disabled \cup {portId}

togglePortSet(disabled, portId) ==
    IF portId \in disabled THEN disabled \ {portId} ELSE disabled \cup {portId}

\* toggleChokepoint that never re-opens a chokepoint
toggleChokepointSet_m(disabled, name) == disabled \cup {name}

toggleChokepointSet(disabled, name) ==
    IF name \in disabled THEN disabled \ {name} ELSE disabled \cup {name}

\* isEdgeDisabled that looks at the first chokepoint of the edge only
isEdgeDisabled_m(disabledCps, edge) ==
    /\ Len(edge.chokepoints) > 0
    /\ edge.chokepoints[1] \in disabledCps

isEdgeDisabled(disabledCps, edge) ==
    /\ Len(edge.chokepoints) > 0
    /\ \E i \in 1..Len(edge.chokepoints) : edge.chokepoints[i] \in disabledCps

(***************************************************************************)
(* PriorityQueue.ts                                                        *)
(***************************************************************************)
\* enqueue: push, then the stable sort by priority.  The array is sorted
\* before the push, so the sort moves the new entry behind every entry whose
\* priority is not larger.
enqueue(elements, element, priority) ==
    LET k == Cardinality({ i \in 1..Len(elements) : elements[i].priority <= priority })
    IN  SubSeq(elements, 1, k) \o << [element |-> element, priority |-> priority] >>
            \o SubSeq(elements, k + 1, Len(elements))

(***************************************************************************)
(* Dijkstra.ts: DijkstraRouter.findPath                                    *)
(*                                                                         *)
(* A graph g is [nodes, adjList, ports].  A result is a record             *)
(* [kind, pathNodeIds, edges, totalDist]: kind "null" is the null return,  *)
(* kind "throw" an uncaught TypeError, kind "route" a RouteResult.         *)
(***************************************************************************)
NullResult == [kind |-> "null", pathNodeIds |-> << >>, edges |-> << >>, totalDist |-> 0]

ThrowResult == [kind |-> "throw", pathNodeIds |-> << >>, edges |-> << >>, totalDist |-> 0]

\* the node_id of ports[portId], "" when the optional chain yields undefined
PortNodeId(ports, portId) == IF portId \in DOMAIN ports THEN ports[portId].node_id ELSE ""

\* lines 93-105: dist_km plus the delay of every chokepoint of the edge that
\* has a truthy positive entry.  delayPenalties is a map from chokepoint
\* names to hours; an omitted argument is the empty map.
RECURSIVE delayKmFrom(_, _, _)
delayKmFrom(delayPenalties, chokepoints, i) ==
    IF i > Len(chokepoints) THEN 0
    ELSE LET chokepoint == chokepoints[i]
             delayHours == IF chokepoint \in DOMAIN delayPenalties
                           THEN delayPenalties[chokepoint] ELSE 0
         IN  (IF delayHours # 0 /\ delayHours > 0 THEN delayHours * SHIP_SPEED_KM_H ELSE 0)
             + delayKmFrom(delayPenalties, chokepoints, i + 1)

\* edge weight that stops after the first chokepoint of the edge
edgeWeight_m(delayPenalties, edge) ==
    edge.dist_km + delayKmFrom(delayPenalties,
        IF edge.chokepoints = <<>> THEN <<>> ELSE <<edge.chokepoints[1]>>, 1)

\* edge weight that takes a negative entry for a delay of that many hours
edgeWeight_abs(delayPenalties, edge) ==
    edge.dist_km + delayKmFrom([c \in DOMAIN delayPenalties |-> Abs(delayPenalties[c])],
                               edge.chokepoints, 1)

edgeWeight(delayPenalties, edge) ==
    edge.dist_km + delayKmFrom(delayPenalties, edge.chokepoints, 1)

\* line 108: newDist < (distances[neighborId] || Infinity)
Improves(distances, neighborId, newDist) ==
    IF neighborId \in DOMAIN distances /\ distances[neighborId] # 0
    THEN newDist < distances[neighborId]
    ELSE TRUE

\* lines 40-43: the locals of a solve
SolverInit(startNodeId) ==
    [elements  |-> << [element |-> startNodeId, priority |-> 0] >>,
     distances |-> [x \in {startNodeId} |-> 0],
     previous  |-> EmptyMap,
     visited   |-> {},
     status    |-> "run"]

\* lines 87-118: the body of the loop over neighbors, for one edge
RelaxEdge(g, disabledCps, delayPenalties, endNodeId, cur, currentDist, edge, s) ==
    IF isEdgeDisabled(disabledCps, edge) THEN s
    ELSE LET neighborId == IF edge.source = cur THEN edge.target ELSE edge.source
             newDist    == currentDist + edgeWeight(delayPenalties, edge)
         IN  IF neighborId \in s.visited THEN s
             ELSE IF ~Improves(s.distances, neighborId, newDist) THEN s
             ELSE LET t == [s EXCEPT !.distances = Put(@, neighborId, newDist),
                                     !.previous = Put(@, neighborId,
                                                      [node |-> cur, edge |-> edge])]
                  IN  \* heuristic reads .lat of both nodes
                      IF ~HasNode(g.nodes, neighborId) \/ ~HasNode(g.nodes, endNodeId)
                      THEN [t EXCEPT !.status = "throw"]
                      ELSE [t EXCEPT !.elements =
                               enqueue(@, neighborId,
                                       newDist + heuristic(NodeAt(g.nodes, neighborId),
                                                           NodeAt(g.nodes, endNodeId)))]

RECURSIVE RelaxLoop(_, _, _, _, _, _, _, _, _)
RelaxLoop(g, disabledCps, delayPenalties, endNodeId, cur, currentDist, neighbors, i, s) ==
    IF i > Len(neighbors) \/ s.status # "run" THEN s
    ELSE RelaxLoop(g, disabledCps, delayPenalties, endNodeId, cur, currentDist, neighbors,
                   i + 1,
                   RelaxEdge(g, disabledCps, delayPenalties, endNodeId, cur, currentDist,
                             neighbors[i], s))

\* lines 46-119: one iteration of the while loop, the queue being non-empty
SearchStep(g, disabledCps, delayPenalties, endNodeId, s) ==
    LET innerCurrentNodeId == Head(s.elements).element
        popped == [s EXCEPT !.elements = Tail(@)]
    IN  IF innerCurrentNodeId \notin DOMAIN s.distances THEN popped
        ELSE IF innerCurrentNodeId = endNodeId THEN [popped EXCEPT !.status = "found"]
        ELSE IF innerCurrentNodeId \in s.visited THEN popped
        ELSE LET neighbors == IF innerCurrentNodeId \in DOMAIN g.adjList
                              THEN g.adjList[innerCurrentNodeId] ELSE << >>
             IN  RelaxLoop(g, disabledCps, delayPenalties, endNodeId, innerCurrentNodeId,
                           s.distances[innerCurrentNodeId], neighbors, 1,
                           [popped EXCEPT !.visited = @ \cup {innerCurrentNodeId}])

RECURSIVE Search(_, _, _, _, _)
\* lines 45-122: the while loop
Search(g, disabledCps, delayPenalties, endNodeId, s) ==
    IF s.status # "run" THEN s
    ELSE IF s.elements = << >> THEN [s EXCEPT !.status = "null"]
    ELSE Search(g, disabledCps, delayPenalties, endNodeId,
                SearchStep(g, disabledCps, delayPenalties, endNodeId, s))

\* back-pointer walk that gives up after the first back-pointer
Walk_m(previous, startNodeId, curr, acc) ==
    IF curr = startNodeId
    THEN [path |-> << startNodeId >> \o acc.path, edges |-> acc.edges]
    ELSE IF curr \in DOMAIN previous
    THEN [path |-> << startNodeId, curr >> \o acc.path,
          edges |-> << previous[curr].edge >> \o acc.edges]
    ELSE [path |-> << startNodeId, curr >> \o acc.path, edges |-> acc.edges]

RECURSIVE Walk(_, _, _, _)
\* lines 55-68: the back-pointer walk, already in reversed (route) order
Walk(previous, startNodeId, curr, acc) ==
    IF curr = startNodeId
    THEN [path |-> << startNodeId >> \o acc.path, edges |-> acc.edges]
    ELSE IF curr \in DOMAIN previous
    THEN Walk(previous, startNodeId, previous[curr].node,
              [path |-> << curr >> \o acc.path,
               edges |-> << previous[curr].edge >> \o acc.edges])
    ELSE [path |-> << startNodeId, curr >> \o acc.path, edges |-> acc.edges]

\* result that reports the real length of the route instead of distances[end]
Reconstruct_m(g, startNodeId, endNodeId, s) ==
    LET w == Walk(s.previous, startNodeId, endNodeId, [path |-> << >>, edges |-> << >>])
    IN  IF \E i \in 1..Len(w.path) : ~HasNode(g.nodes, w.path[i]) THEN ThrowResult
        ELSE [kind |-> "route", pathNodeIds |-> w.path, edges |-> w.edges,
              totalDist |-> SumDist(w.edges)]

\* lines 52-79: the result built when the destination is dequeued
Reconstruct(g, startNodeId, endNodeId, s) ==
    LET w == Walk(s.previous, startNodeId, endNodeId, [path |-> << >>, edges |-> << >>])
    IN  \* startNode.lon and n.id throw on a node that is not in nodes
        IF \E i \in 1..Len(w.path) : ~HasNode(g.nodes, w.path[i]) THEN ThrowResult
        ELSE [kind |-> "route", pathNodeIds |-> w.path, edges |-> w.edges,
              totalDist |-> s.distances[endNodeId]]

\* findPath that also refuses to transit the node of a disabled port
findPath_m(g, disabledPorts, disabledCps, startPortId, endPortId, delayPenalties) ==
    IF startPortId \in disabledPorts \/ endPortId \in disabledPorts THEN NullResult
    ELSE LET startNodeId == PortNodeId(g.ports, startPortId)
             endNodeId   == PortNodeId(g.ports, endPortId)
             closed == { g.ports[p].node_id : p \in disabledPorts \cap DOMAIN g.ports }
             open   == [g EXCEPT !.adjList =
                          [n \in DOMAIN g.adjList |->
                             SelectSeq(g.adjList[n],
                                       LAMBDA e : {e.source, e.target} \cap closed = {})]]
         IN  IF startNodeId = "" \/ endNodeId = "" THEN NullResult
             ELSE LET s == Search(open, disabledCps, delayPenalties, endNodeId,
                                  SolverInit(startNodeId))
                  IN  IF s.status = "found" THEN Reconstruct(g, startNodeId, endNodeId, s)
                      ELSE IF s.status = "throw" THEN ThrowResult
                      ELSE NullResult

findPath(g, disabledPorts, disabledCps, startPortId, endPortId, delayPenalties) ==
    IF startPortId \in disabledPorts \/ endPortId \in disabledPorts THEN NullResult
    ELSE LET startNodeId == PortNodeId(g.ports, startPortId)
             endNodeId   == PortNodeId(g.ports, endPortId)
         IN  IF startNodeId = "" \/ endNodeId = "" THEN NullResult
             ELSE LET s == Search(g, disabledCps, delayPenalties, endNodeId,
                                  SolverInit(startNodeId))
                  IN  IF s.status = "found" THEN Reconstruct(g, startNodeId, endNodeId, s)
                      ELSE IF s.status = "throw" THEN ThrowResult
                      ELSE NullResult

(***************************************************************************)
(* utils/geo.ts.  A point is << lon, lat >> in tenths of a degree; a        *)
(* polyline is a sequence of points.                                       *)
(***************************************************************************)
\* Haversine distance in metres, for points within one degree of the
\* equator (see heuristic).  sin^2(dLon / 2) has period 360 degrees, so the
\* formula sees the wrapped longitude difference.
haversineDistance(lat1, lon1, lat2, lon2) ==
    LET dLat == lat2 - lat1
        dLon == wrappedLonDelta(lon1, lon2)
    IN  IF dLat = 0 THEN 10 * Abs(dLon) * MetresPerCentiDegree
        ELSE ISqrt(100 * (dLat * dLat + dLon * dLon)) * MetresPerCentiDegree

haversineDistancePoints(a, b) == haversineDistance(a[2], a[1], b[2], b[1])

\* [...geometry].reverse()
Reverse(s) == [i \in 1..Len(s) |-> s[Len(s) + 1 - i]]

\* an omitted startAnchor
NoAnchor == << >>

\* stitching that never reverses a segment after the first
StitchSegment_m(merged, seg, startAnchor) ==
    IF Len(seg) = 0 THEN merged
    ELSE IF Len(merged) > 0
    THEN LET prevEnd == merged[Len(merged)]
         IN  (IF haversineDistancePoints(prevEnd, seg[1]) > epsilonKm
              THEN Append(merged, seg[1]) ELSE merged)
               \o (IF haversineDistancePoints(prevEnd, seg[1]) <= epsilonKm
                   THEN Tail(seg) ELSE seg)
    ELSE IF startAnchor # NoAnchor
              /\ haversineDistancePoints(startAnchor, seg[Len(seg)])
                   < haversineDistancePoints(startAnchor, seg[1])
         THEN Reverse(seg)
         ELSE seg

\* lines 47-83: the body of the loop over rawSegments, for one segment
StitchSegment(merged, seg, startAnchor) ==
    IF Len(seg) = 0 THEN merged
    ELSE IF Len(merged) > 0
    THEN LET prevEnd   == merged[Len(merged)]
             start     == seg[1]
             end       == seg[Len(seg)]
             geometry  == IF haversineDistancePoints(prevEnd, end)
                               < haversineDistancePoints(prevEnd, start)
                          THEN Reverse(seg) ELSE seg
             nextStart == geometry[1]
             gapKm     == haversineDistancePoints(prevEnd, nextStart)
             connected == IF gapKm > epsilonKm THEN Append(merged, nextStart) ELSE merged
         IN  connected \o (IF haversineDistancePoints(prevEnd, geometry[1]) <= epsilonKm
                           THEN Tail(geometry) ELSE geometry)
    ELSE IF startAnchor # NoAnchor
              /\ haversineDistancePoints(startAnchor, seg[Len(seg)])
                   < haversineDistancePoints(startAnchor, seg[1])
         THEN Reverse(seg)
         ELSE seg

RECURSIVE StitchLoop(_, _, _, _)
StitchLoop(rawSegments, i, merged, startAnchor) ==
    IF i > Len(rawSegments) THEN merged
    ELSE StitchLoop(rawSegments, i + 1, StitchSegment(merged, rawSegments[i], startAnchor),
                    startAnchor)

stitchRouteSegments(rawSegments, startAnchor) ==
    LET merged == StitchLoop(rawSegments, 1, << >>, startAnchor)
    IN  IF Len(merged) > 0 THEN << merged >> ELSE << >>

RECURSIVE UnwrapLoop(_, _, _)
\* lines 163-181: the loop from index i (1-based), result holding i - 1 points
UnwrapLoop(coords, i, result) ==
    IF i > Len(coords) THEN result
    ELSE LET prevLon == result[i - 1][1]
             current == coords[i]
             delta   == current[1] - prevLon
             lon     == IF delta > 1800 THEN current[1] - 3600
                        ELSE IF delta < -1800 THEN current[1] + 3600
                        ELSE current[1]
         IN  UnwrapLoop(coords, i + 1, Append(result, << lon, current[2] >>))

unwrapAntimeridian(coords) ==
    IF Len(coords) = 0 THEN << >> ELSE UnwrapLoop(coords, 2, << coords[1] >>)

\* a point of the input on the scale of the output of getPointAlongRoute
Fine(p) == << p[1] * FineScale, p[2] * FineScale >>

\* the null return of getPointAlongRoute
NoPoint == << >>

RECURSIVE NormalizeLon(_)
\* lines 137-138: while (lon > 180) lon -= 360; while (lon < -180) lon += 360
NormalizeLon(lon) ==
    IF lon > 1800 * FineScale THEN NormalizeLon(lon - 3600 * FineScale)
    ELSE IF lon < -1800 * FineScale THEN NormalizeLon(lon + 3600 * FineScale)
    ELSE lon

\* interpolation that snaps to the far end of the sub-segment
InterpolatePoint_m(p1, p2, remaining, segDist) == Fine(p2)

\* (delta * FineScale * remaining) \div segDist, computed through the quotient
\* and remainder of FineScale * remaining so that no product leaves 32 bits
ScaleBy(delta, remaining, segDist) ==
    delta * ((FineScale * remaining) \div segDist)
        + (delta * ((FineScale * remaining) % segDist)) \div segDist

\* lines 116-140: ratio = remaining / segDist, applied to both coordinates
InterpolatePoint(p1, p2, remaining, segDist) ==
    LET lat  == p1[2] * FineScale + ScaleBy(p2[2] - p1[2], remaining, segDist)
        far  == Abs(p2[1] - p1[1]) > 1800
        lon1 == IF far /\ p2[1] > p1[1] THEN p1[1] + 3600 ELSE p1[1]
        lon2 == IF far /\ ~(p2[1] > p1[1]) THEN p2[1] + 3600 ELSE p2[1]
        lon  == lon1 * FineScale + ScaleBy(lon2 - lon1, remaining, segDist)
    IN  << NormalizeLon(lon), lat >>

RECURSIVE PointLoop(_, _, _, _, _)
\* lines 102-149: the two nested loops, at point i of segment k
PointLoop(segments, k, i, coveredKm, distanceKm) ==
    IF k > Len(segments)
    THEN Fine(segments[Len(segments)][Len(segments[Len(segments)])])
    ELSE IF i > Len(segments[k]) - 1 THEN PointLoop(segments, k + 1, 1, coveredKm, distanceKm)
    ELSE LET p1 == segments[k][i]
             p2 == segments[k][i + 1]
             segDist == haversineDistance(p1[2], p1[1], p2[2], p2[1])
         IN  IF segDist <= 0 THEN PointLoop(segments, k, i + 1, coveredKm, distanceKm)
             ELSE IF coveredKm + segDist >= distanceKm
                  THEN InterpolatePoint(p1, p2, distanceKm - coveredKm, segDist)
                  ELSE PointLoop(segments, k, i + 1, coveredKm + segDist, distanceKm)

getPointAlongRoute(segments, distanceKm) ==
    IF Len(segments) = 0 THEN NoPoint
    ELSE IF distanceKm <= 0 THEN Fine(segments[1][1])
    ELSE PointLoop(segments, 1, 1, 0, distanceKm)

(***************************************************************************)
(* Payloads handed to loadFromData.  A payload is [nodes, edges, ports,    *)
(* chokepoints, missing]: a node layout, up to MaxEdges of the layout's    *)
(* lanes in file order, the port table, the names of the chokepoint table, *)
(* and the names of the fields the payload object lacks.                   *)
(***************************************************************************)
\* the chain N1(0,0) N2(0,1) N3(0,2) on the equator, N4 co-located with N3
PlainNodes ==
    << Node("N1", 0, 0), Node("N2", 0, 10), Node("N3", 0, 20), Node("N4", 0, 20) >>

PlainLanes ==
    << Edge("N1", "N2", 111200, << >>, "L12"),
       Edge("N2", "N3", 111200, << "Suez Canal" >>, "L23"),
       Edge("N3", "N4", 0, << >>, "L34"),
       Edge("N2", "N4", 120000, << "Panama Canal", "Suez Canal" >>, "L24"),
       Edge("N1", "N4", 230000, << "Panama Canal" >>, "L14") >>

\* four nodes on the equator either side of the antimeridian
DatelineNodes ==
    << Node("N1", 0, 1780), Node("N2", 0, 1799), Node("N3", 0, -1799), Node("N4", 0, -1780) >>

DatelineLanes ==
    << Edge("N1", "N2", 215000, << >>, "L12"),
       Edge("N1", "N3", 234000, << "Suez Canal" >>, "L13"),
       Edge("N3", "N4", 212000, << "Panama Canal" >>, "L34"),
       Edge("N2", "N4", 240000, << >>, "L24") >>

\* the antimeridian with two east-side candidates: N2 (lat 0.5) and N4
\* (lat 0.1) both face the west-side node N3 (lat 0)
CrowdedNodes ==
    << Node("N1", 0, 1780), Node("N2", 5, 1799), Node("N3", 0, -1799), Node("N4", 1, 1799) >>

CrowdedLanes ==
    << Edge("N1", "N2", 218000, << >>, "L12"),
       Edge("N1", "N3", 234000, << "Suez Canal" >>, "L13"),
       Edge("N2", "N4", 44480, << >>, "L24") >>

\* PC sits on a node routes pass through; PX names a node that is not in nodes
PortTable ==
    [p \in {"PA", "PB", "PC", "PX"} |->
        [id |-> p,
         node_id |-> CASE p = "PA" -> "N1" [] p = "PB" -> "N3"
                       [] p = "PC" -> "N2" [] OTHER -> "N9"]]

RECURSIVE PickLanes(_, _, _)
\* the lanes whose index is in S, in file order
PickLanes(lanes, S, i) ==
    IF i > Len(lanes) THEN << >>
    ELSE (IF i \in S THEN << lanes[i] >> ELSE << >>) \o PickLanes(lanes, S, i + 1)

\* ids handed to togglePort / toggleChokepoint / findPath ("PZ" is unknown)
TogglePortIds == {"PA", "PC"}

ChokepointNames == {"Suez Canal", "Panama Canal"}

PayloadsOf(layoutNodes, lanes) ==
    { [nodes |-> layoutNodes, edges |-> PickLanes(lanes, S, 1), ports |-> PortTable,
       chokepoints |-> ChokepointNames, missing |-> {}] :
        S \in { T \in SUBSET (1..Len(lanes)) : Cardinality(T) <= MaxEdges } }

Payloads == PayloadsOf(PlainNodes, PlainLanes) \cup PayloadsOf(DatelineNodes, DatelineLanes)

QueryPortIds == {"PA", "PB", "PX", "PZ"}

\* the delay maps findPath is called with: only positive predictions are
\* entered (AppStore.tsx lines 119-125)
delayPenaltiesOf(canalDelay) ==
    [name \in { n \in DOMAIN canalDelay : canalDelay[n] > 0 } |-> canalDelay[name]]

(***************************************************************************)
(* State.                                                                  *)
(***************************************************************************)
VARIABLES
    nodes,                \* GraphIndex.nodes
    adjList,              \* GraphIndex.adjList
    ports,                \* GraphIndex.ports
    chokepoints,          \* GraphIndex.chokepoints (the names of the table)
    disabledPorts,        \* GraphIndex.disabledPorts
    disabledChokepoints,  \* GraphIndex.disabledChokepoints
    canalDelay,           \* predicted delay hours per canal (0: no prediction)
    isGraphLoaded,        \* AppStore: the mount effect has loaded the graph
    lastOp,               \* the operation that ran last
    call,                 \* the arguments of the last findPath call
    ret,                  \* what the last findPath call returned
    loadError,            \* the last loadFromData call raised
    originId,             \* AppStore originId ("" for null)
    destId,               \* AppStore destId ("" for null)
    route,                \* AppStore route (NullResult for null)
    effectPending,        \* a dependency of the route effect changed since it ran
    geoIn,                \* the arguments of the last geometry call
    geoOut,               \* what the last geometry call returned
    solver,               \* findPath in progress: elements, distances, previous, visited
    cursor,               \* findPath in progress: the node being expanded and the
                          \* index of its next neighbor edge
    expanded,             \* the nodes whose neighbors the solve has relaxed, in order
    isPlayback,           \* AppStore isPlayback
    playbackHours,        \* AppStore playbackHours, in units of 1 / HourScale hours
    shipPosition,         \* AppStore shipPosition: who wrote it last, and what
    startDate,            \* AppStore startDate: "", or a date in the past
    wallTimer,            \* the interval of the simulation effect and what it closes over
    playTimer,            \* the interval of the playback effect and what it closes over
    simPending            \* the ship effects a dependency of which changed since they ran

\* the AppStore selection and derived route
storeVars == << originId, destId, route, effectPending >>

\* the last call of a function of utils/geo.ts
geoVars == << geoIn, geoOut >>

\* the locals of a findPath call in progress
solveVars == << solver, cursor, expanded >>

\* the playback state, the ship position and the timers
playVars == << isPlayback, playbackHours, shipPosition, startDate, wallTimer, playTimer,
               simPending >>

vars == << nodes, adjList, ports, chokepoints, disabledPorts, disabledChokepoints,
           canalDelay, isGraphLoaded, lastOp, call, ret, loadError, storeVars, geoVars,
           solveVars, playVars >>

graph == [nodes |-> nodes, adjList |-> adjList, ports |-> ports]

NoCall == [origin |-> "", dest |-> "", delays |-> EmptyMap]

NoGeo == [op |-> "none"]

\* no findPath call in progress
NoSolve == [status |-> "idle"]

NoCursor == [node |-> "", idx |-> 0]

\* no interval installed
NoTimer == [on |-> FALSE]

\* the useState initial value of shipPosition: null, written by nobody
NoShip == [by |-> "init", at |-> << >>]

InitSolve == solver = NoSolve /\ cursor = NoCursor /\ expanded = << >>

\* the useState initial values; no effect has installed an interval
InitPlay ==
    /\ isPlayback = FALSE
    /\ playbackHours = 0
    /\ shipPosition = NoShip
    /\ startDate = ""
    /\ wallTimer = NoTimer
    /\ playTimer = NoTimer
    /\ simPending = {}

\* new GraphIndex(): empty tables, empty blockade sets; no delay predicted
Init ==
    /\ nodes = << >>
    /\ adjList = EmptyMap
    /\ ports = EmptyMap
    /\ chokepoints = {}
    /\ disabledPorts = {}
    /\ disabledChokepoints = {}
    /\ canalDelay = [name \in ChokepointNames |-> 0]
    /\ isGraphLoaded = FALSE
    /\ lastOp = "new"
    /\ call = NoCall
    /\ ret = NullResult
    /\ loadError = FALSE
    /\ originId = "" /\ destId = ""
    /\ route = NullResult
    /\ effectPending = FALSE
    /\ geoIn = NoGeo /\ geoOut = NoGeo
    /\ InitSolve
    /\ InitPlay

\* AppStore mount effect (its dependency list never changes, so it runs
\* once): graph.loadFromData(data); setIsGraphLoaded(true)
loadFromData(data) ==
    /\ ~isGraphLoaded
    /\ isGraphLoaded' = TRUE
    /\ nodes' = data.nodes
    /\ ports' = data.ports
    /\ chokepoints' = data.chokepoints
    /\ adjList' = LoadAdj(data)
    /\ loadError' = FALSE
    /\ lastOp' = "loadFromData"
    /\ call' = NoCall
    /\ ret' = NullResult
    /\ UNCHANGED << disabledPorts, disabledChokepoints, canalDelay, storeVars, geoVars,
                    solveVars, playVars >>

togglePort(portId) ==
    /\ disabledPorts' = togglePortSet(disabledPorts, portId)
    /\ lastOp' = "togglePort"
    /\ call' = NoCall
    /\ ret' = NullResult
    /\ UNCHANGED << nodes, adjList, ports, chokepoints, disabledChokepoints, canalDelay,
                   isGraphLoaded, loadError, storeVars, geoVars, solveVars, playVars >>

toggleChokepoint(name) ==
    /\ disabledChokepoints' = toggleChokepointSet(disabledChokepoints, name)
    /\ lastOp' = "toggleChokepoint"
    /\ call' = NoCall
    /\ ret' = NullResult
    /\ UNCHANGED << nodes, adjList, ports, chokepoints, disabledPorts, canalDelay,
                   isGraphLoaded, loadError, storeVars, geoVars, solveVars, playVars >>

\* reset that leaves the chokepoint blockades in place
reset_m ==
    /\ disabledPorts' = {}
    /\ lastOp' = "reset"
    /\ call' = NoCall
    /\ ret' = NullResult
    /\ UNCHANGED << nodes, adjList, ports, chokepoints, disabledChokepoints, canalDelay,
                   isGraphLoaded, loadError, storeVars, geoVars, solveVars, playVars >>

\* AppStore reset: both blockade sets are cleared
reset ==
    /\ disabledPorts' = {}
    /\ disabledChokepoints' = {}
    /\ lastOp' = "reset"
    /\ call' = NoCall
    /\ ret' = NullResult
    /\ UNCHANGED << nodes, adjList, ports, chokepoints, canalDelay, isGraphLoaded,
                   loadError, storeVars, geoVars, solveVars, playVars >>

\* AppStore setPanamaCanalDelay / setSuezCanalDelay
setCanalDelay(name, hours) ==
    /\ canalDelay' = [canalDelay EXCEPT ![name] = hours]
    /\ lastOp' = "setCanalDelay"
    /\ call' = NoCall
    /\ ret' = NullResult
    /\ UNCHANGED << nodes, adjList, ports, chokepoints, disabledPorts, disabledChokepoints,
                   isGraphLoaded, loadError, storeVars, geoVars, solveVars, playVars >>

\* a findPath call that blocks the origin port once it has answered
findPathCall_m(startPortId, endPortId) ==
    /\ call' = [origin |-> startPortId, dest |-> endPortId,
                delays |-> delayPenaltiesOf(canalDelay)]
    /\ ret' = findPath(graph, disabledPorts, disabledChokepoints,
                       startPortId, endPortId, delayPenaltiesOf(canalDelay))
    /\ lastOp' = "findPath"
    /\ disabledPorts' = disabledPorts \cup {startPortId}
    /\ UNCHANGED << nodes, adjList, ports, chokepoints, disabledChokepoints, canalDelay,
                   isGraphLoaded, loadError, storeVars, geoVars, solveVars, playVars >>

\* router.findPath(originId, destId, delayPenalties)
findPathCall(startPortId, endPortId) ==
    /\ call' = [origin |-> startPortId, dest |-> endPortId,
                delays |-> delayPenaltiesOf(canalDelay)]
    /\ ret' = findPath(graph, disabledPorts, disabledChokepoints,
                       startPortId, endPortId, delayPenaltiesOf(canalDelay))
    /\ lastOp' = "findPath"
    /\ UNCHANGED << nodes, adjList, ports, chokepoints, disabledPorts, disabledChokepoints,
                   canalDelay, isGraphLoaded, loadError, storeVars, geoVars,
                   solveVars, playVars >>

Next ==
    \/ \E data \in Payloads : loadFromData(data)
    \/ \E portId \in TogglePortIds : togglePort(portId)
    \/ \E name \in ChokepointNames : toggleChokepoint(name)
    \/ reset
    \/ \E name \in ChokepointNames, hours \in 0..MaxDelayHours : setCanalDelay(name, hours)
    \/ \E o \in QueryPortIds, d \in QueryPortIds : findPathCall(o, d)

Spec == Init /\ [][Next]_vars

(***************************************************************************)
(* The router across the antimeridian: the same operations over the two    *)
(* antimeridian layouts, with every port of the table as origin and        *)
(* destination.                                                            *)
(***************************************************************************)
DatelinePayloads ==
    PayloadsOf(DatelineNodes, DatelineLanes) \cup PayloadsOf(CrowdedNodes, CrowdedLanes)

DatelinePortIds == {"PA", "PB", "PC"}

NextDateline ==
    \/ \E data \in DatelinePayloads : loadFromData(data)
    \/ \E portId \in TogglePortIds : togglePort(portId)
    \/ \E name \in ChokepointNames : toggleChokepoint(name)
    \/ \E name \in ChokepointNames, hours \in 0..MaxDelayHours : setCanalDelay(name, hours)
    \/ \E o \in DatelinePortIds, d \in DatelinePortIds : findPathCall(o, d)

SpecDateline == Init /\ [][NextDateline]_vars

(***************************************************************************)
(* GraphIndex.loadFromData called directly, any number of times, also with *)
(* payloads that lack the nodes or the edges field.                        *)
(***************************************************************************)
\* the first MaxEdges lanes of a layout
FirstLanes(lanes) ==
    SubSeq(lanes, 1, IF Len(lanes) < MaxEdges THEN Len(lanes) ELSE MaxEdges)

WholePayloads ==
    { [nodes |-> PlainNodes, edges |-> FirstLanes(PlainLanes), ports |-> PortTable,
       chokepoints |-> ChokepointNames, missing |-> {}],
      [nodes |-> DatelineNodes, edges |-> FirstLanes(DatelineLanes), ports |-> PortTable,
       chokepoints |-> ChokepointNames, missing |-> {}] }

ReloadPayloads ==
    { [data EXCEPT !.missing = m] : data \in WholePayloads, m \in {{}, {"nodes"}, {"edges"}} }

\* loadFromData that indexes into the adjacency of the previous load
loadFromDataDirect_m(data) ==
    /\ nodes' = data.nodes
    /\ ports' = data.ports
    /\ chokepoints' = data.chokepoints
    /\ adjList' = addDatelineBridges(data.nodes, BuildAdj(data.edges, 1, adjList))
    /\ loadError' = FALSE
    /\ lastOp' = "loadFromData"
    /\ call' = NoCall
    /\ ret' = NullResult
    /\ UNCHANGED << disabledPorts, disabledChokepoints, canalDelay, isGraphLoaded,
                   storeVars, geoVars, solveVars, playVars >>

\* lines 17-39 of loadFromData.  data.nodes of a payload without nodes is
\* undefined: this.nodes becomes undefined (no id is a key of it), the edges
\* are indexed, and Object.values(nodes) in addDatelineBridges raises.
loadFromDataDirect(data) ==
    /\ nodes' = IF "nodes" \in data.missing THEN << >> ELSE data.nodes
    /\ ports' = data.ports
    /\ chokepoints' = data.chokepoints
    /\ adjList' = LET built == IF "edges" \in data.missing THEN EmptyMap
                               ELSE BuildAdj(data.edges, 1, EmptyMap)
                  IN  IF "nodes" \in data.missing THEN built
                      ELSE addDatelineBridges(data.nodes, built)
    /\ loadError' = ("nodes" \in data.missing)
    /\ lastOp' = "loadFromData"
    /\ call' = NoCall
    /\ ret' = NullResult
    /\ UNCHANGED << disabledPorts, disabledChokepoints, canalDelay, isGraphLoaded,
                   storeVars, geoVars, solveVars, playVars >>

NextReload ==
    \/ \E data \in ReloadPayloads : loadFromDataDirect(data)
    \/ \E portId \in TogglePortIds : togglePort(portId)
    \/ \E name \in ChokepointNames : toggleChokepoint(name)
    \/ \E o \in QueryPortIds, d \in QueryPortIds : findPathCall(o, d)

SpecReload == Init /\ [][NextReload]_vars

(***************************************************************************)
(* AppStore: playback and the ship position.  Hours are counted in units   *)
(* of 1 / HourScale hours.  The geometry of a lane is the straight line    *)
(* between its end nodes, which is what addDatelineBridges gives a bridge. *)
(***************************************************************************)
\* a node as a [lon, lat] point
PointOf(n) == << n.lon, n.lat >>

\* edge.geometry
GeometryOf(g, edge) ==
    << PointOf(NodeAt(g.nodes, edge.source)), PointOf(NodeAt(g.nodes, edge.target)) >>

\* Dijkstra.ts lines 69-71: result.segments
SegmentsOf(g, result) ==
    IF result.kind # "route" THEN << >>
    ELSE stitchRouteSegments([i \in 1..Len(result.edges) |-> GeometryOf(g, result.edges[i])],
                             PointOf(NodeAt(g.nodes, result.pathNodeIds[1])))

RECURSIVE LineLength(_, _)
\* the great-circle length of a polyline from its point i on
LineLength(line, i) ==
    IF i >= Len(line) THEN 0
    ELSE haversineDistancePoints(line[i], line[i + 1]) + LineLength(line, i + 1)

\* utils/geo getRouteLengthKm: the summed length of the segments, in metres
getRouteLengthKm(segments) ==
    SeqSum([k \in 1..Len(segments) |-> LineLength(segments[k], 1)])

\* playback step size: stepHours = 1
stepHours == HourScale

\* totalHours = routeLengthKm / speedKmH, rounded down to the clock resolution
TotalHours(segments) == (getRouteLengthKm(segments) * HourScale) \div SHIP_SPEED_KM_H

\* getPointAlongRoute(route.segments, hours * speedKmH)
PositionAt(segments, hours) ==
    getPointAlongRoute(segments, (hours * SHIP_SPEED_KM_H) \div HourScale)

\* setShipPosition(pt) called by the named effect or timer (NoPoint for null)
Written(by, pt) == [by |-> by, at |-> pt]

\* the values of (now - start) the clock is read at, for a start date
Elapsed(sd) == IF sd = "past" THEN {HourScale + 1} ELSE {0}

\* types.ts lines 88-114: SimulationTimeline.getShipPosition
getShipPosition(routeSegments, sd, elapsedHours) ==
    IF Len(routeSegments) = 0 \/ sd = "" THEN NoPoint
    ELSE IF elapsedHours < 0 THEN NoPoint
    ELSE PositionAt(routeSegments, elapsedHours)

\* wall-clock interval that writes the position also during playback
WallWrites_m(timer) == timer.startDate # ""

\* lines 265-271: if (isPlayback) {} else if (startDate) { setShipPosition(...) }
WallWrites(timer) == ~timer.isPlayback /\ timer.startDate # ""

\* lines 258-275: the simulation effect run for a render with these values;
\* the interval closes over route.segments, startDate and isPlayback
wallEffect(g, r, sd, pb, ship) ==
    IF r.kind # "route"
    THEN [timer |-> NoTimer, ship |-> Written("wallEffect", NoPoint)]
    ELSE [timer |-> [on |-> TRUE, segments |-> SegmentsOf(g, r), startDate |-> sd,
                     isPlayback |-> pb],
          ship |-> ship]

\* lines 278-309: the playback effect run for a render with these values;
\* the interval closes over route.segments and the totalHours of lines 286-287
playbackEffect(g, r, pb) ==
    IF ~pb \/ r.kind # "route" THEN NoTimer
    ELSE [on |-> TRUE, segments |-> SegmentsOf(g, r),
          totalHours |-> TotalHours(SegmentsOf(g, r))]

\* lines 312-319: the sync effect run for a render with these values
syncEffect(g, r, pb, hours, ship) ==
    IF pb /\ r.kind = "route"
    THEN Written("syncEffect", PositionAt(SegmentsOf(g, r), hours)) ELSE ship

\* lines 296-297: next >= totalHours ? next % totalHours : next
Wrap(next, totalHours) == IF next >= totalHours THEN next % totalHours ELSE next

\* the three ship effects
ShipEffectNames == {"wall", "loop", "sync"}

(***************************************************************************)
(* AppStore: the selection, the actions that wrap the GraphIndex           *)
(* operations, and the route effect.  Every action that changes a          *)
(* dependency of the effect (isGraphLoaded, originId, destId, the canal    *)
(* predictions, refresh) leaves it pending; the effect runs after the next *)
(* render.                                                                 *)
(***************************************************************************)
\* ports the user can select ("" clears the selection)
SelectableIds == {"", "PA", "PB", "PX"}

\* the route effect raised: React unmounts the provider, nothing runs after
Crashed == lastOp = "routeEffect" /\ ret.kind = "throw"

\* lines 97-109 with the effect pending on isGraphLoaded
mountEffect(data) ==
    /\ ~Crashed
    /\ ~isGraphLoaded
    /\ isGraphLoaded' = TRUE
    /\ nodes' = data.nodes
    /\ ports' = data.ports
    /\ chokepoints' = data.chokepoints
    /\ adjList' = LoadAdj(data)
    /\ loadError' = FALSE
    /\ effectPending' = TRUE
    /\ lastOp' = "loadFromData"
    /\ call' = NoCall
    /\ ret' = NullResult
    /\ UNCHANGED << disabledPorts, disabledChokepoints, canalDelay, originId, destId, route,
                   geoVars, solveVars, playVars >>

setOriginId(id) ==
    /\ ~Crashed
    /\ originId' = id
    /\ effectPending' = (effectPending \/ id # originId)
    /\ lastOp' = "setOriginId"
    /\ call' = NoCall
    /\ ret' = NullResult
    /\ UNCHANGED << nodes, adjList, ports, chokepoints, disabledPorts, disabledChokepoints,
                   canalDelay, isGraphLoaded, loadError, destId, route, geoVars,
                   solveVars, playVars >>

setDestId(id) ==
    /\ ~Crashed
    /\ destId' = id
    /\ effectPending' = (effectPending \/ id # destId)
    /\ lastOp' = "setDestId"
    /\ call' = NoCall
    /\ ret' = NullResult
    /\ UNCHANGED << nodes, adjList, ports, chokepoints, disabledPorts, disabledChokepoints,
                   canalDelay, isGraphLoaded, loadError, originId, route, geoVars,
                   solveVars, playVars >>

\* lines 345-348: graph.togglePort(id); setRefresh(prev => prev + 1)
storeTogglePort(id) ==
    /\ ~Crashed
    /\ disabledPorts' = togglePortSet(disabledPorts, id)
    /\ effectPending' = TRUE
    /\ lastOp' = "togglePort"
    /\ call' = NoCall
    /\ ret' = NullResult
    /\ UNCHANGED << nodes, adjList, ports, chokepoints, disabledChokepoints, canalDelay,
                   isGraphLoaded, loadError, originId, destId, route, geoVars,
                   solveVars, playVars >>

\* lines 350-353: graph.toggleChokepoint(name); setRefresh(prev => prev + 1)
storeToggleChokepoint(name) ==
    /\ ~Crashed
    /\ disabledChokepoints' = toggleChokepointSet(disabledChokepoints, name)
    /\ effectPending' = TRUE
    /\ lastOp' = "toggleChokepoint"
    /\ call' = NoCall
    /\ ret' = NullResult
    /\ UNCHANGED << nodes, adjList, ports, chokepoints, disabledPorts, canalDelay,
                   isGraphLoaded, loadError, originId, destId, route, geoVars,
                   solveVars, playVars >>

\* setPanamaCanalDelay / setSuezCanalDelay with a new prediction object
storeSetCanalDelay(name, hours) ==
    /\ ~Crashed
    /\ canalDelay' = [canalDelay EXCEPT ![name] = hours]
    /\ effectPending' = TRUE
    /\ lastOp' = "setCanalDelay"
    /\ call' = NoCall
    /\ ret' = NullResult
    /\ UNCHANGED << nodes, adjList, ports, chokepoints, disabledPorts, disabledChokepoints,
                   isGraphLoaded, loadError, originId, destId, route, geoVars,
                   solveVars, playVars >>

\* lines 359-368: both sets cleared, the selection and the start date cleared,
\* refresh bumped
storeReset ==
    /\ ~Crashed
    /\ disabledPorts' = {}
    /\ disabledChokepoints' = {}
    /\ originId' = ""
    /\ destId' = ""
    /\ effectPending' = TRUE
    /\ lastOp' = "reset"
    /\ call' = NoCall
    /\ ret' = NullResult
    /\ startDate' = ""
    /\ simPending' = (simPending \cup IF startDate # "" THEN {"wall"} ELSE {})
    /\ UNCHANGED << nodes, adjList, ports, chokepoints, canalDelay, isGraphLoaded, loadError,
                   route, geoVars, solveVars, isPlayback, playbackHours, shipPosition,
                   wallTimer, playTimer >>

\* lines 112-132: setRoute(null) on the guard, else setRoute(findPath(...)),
\* setPlaybackHours(0) and, for a route, setShipPosition(its first point);
\* when findPath raises, none of the three is reached.  A new route object, or
\* null after a route, makes the three ship effects pending, a changed counter
\* the sync effect
routeEffect ==
    /\ ~Crashed
    /\ effectPending
    /\ effectPending' = FALSE
    /\ lastOp' = "routeEffect"
    /\ IF ~isGraphLoaded \/ originId = "" \/ destId = "" \/ originId = destId
       THEN /\ route' = NullResult
            /\ call' = NoCall
            /\ ret' = NullResult
            /\ simPending' = (simPending \cup
                                IF route.kind = "route" THEN ShipEffectNames ELSE {})
            /\ UNCHANGED << playbackHours, shipPosition >>
       ELSE LET result == findPath(graph, disabledPorts, disabledChokepoints,
                                   originId, destId, delayPenaltiesOf(canalDelay))
            IN  /\ call' = [origin |-> originId, dest |-> destId,
                            delays |-> delayPenaltiesOf(canalDelay)]
                /\ ret' = result
                /\ route' = IF result.kind = "throw" THEN route ELSE result
                /\ playbackHours' = IF result.kind = "throw" THEN playbackHours ELSE 0
                /\ shipPosition' =
                       IF result.kind = "route"
                       THEN Written("routeEffect", getPointAlongRoute(SegmentsOf(graph, result), 0))
                       ELSE shipPosition
                /\ simPending' =
                       (simPending
                          \cup (IF result.kind = "route" \/
                                   (result.kind = "null" /\ route.kind = "route")
                                THEN ShipEffectNames ELSE {})
                          \cup (IF result.kind # "throw" /\ playbackHours # 0
                                THEN {"sync"} ELSE {}))
    /\ UNCHANGED << nodes, adjList, ports, chokepoints, disabledPorts, disabledChokepoints,
                   canalDelay, isGraphLoaded, loadError, originId, destId, geoVars,
                   solveVars, isPlayback, startDate, wallTimer, playTimer >>

NextStore ==
    \/ \E data \in WholePayloads : mountEffect(data)
    \/ \E id \in SelectableIds : setOriginId(id)
    \/ \E id \in SelectableIds : setDestId(id)
    \/ \E id \in TogglePortIds : storeTogglePort(id)
    \/ \E name \in ChokepointNames : storeToggleChokepoint(name)
    \/ \E name \in ChokepointNames, hours \in 0..MaxDelayHours : storeSetCanalDelay(name, hours)
    \/ storeReset
    \/ routeEffect

SpecStore == Init /\ [][NextStore]_vars

(***************************************************************************)
(* AppStore with playback: the store actions above, the start date, the    *)
(* playback toggle, the two intervals and the three ship effects.  A click *)
(* or an input change is handled on a settled render and React 18 runs the *)
(* effects of its render before any timer callback; the effects of a       *)
(* render that follows the route effect run later, and until then the      *)
(* intervals of the previous render keep firing.                           *)
(***************************************************************************)
\* the values of the start date input
StartDates == {"", "past"}

\* the voyages selected during playback: from PA (or nothing) to PB, to the
\* port PX whose node is not in nodes, or to nothing
PlayOriginIds == {"", "PA"}

PlayDestIds == {"", "PB", "PX"}

\* no effect is waiting to run
Settled == ~effectPending /\ simPending = {}

\* what the playback actions leave alone
PlayFrame ==
    UNCHANGED << nodes, adjList, ports, chokepoints, disabledPorts, disabledChokepoints,
                 canalDelay, isGraphLoaded, call, ret, loadError, storeVars, geoVars,
                 solveVars >>

\* setStartDate(value) from the date input; the simulation effect runs again
setStartDate(value) ==
    /\ ~Crashed
    /\ Settled
    /\ startDate' = value
    /\ LET w == wallEffect(graph, route, value, isPlayback, shipPosition)
       IN  /\ wallTimer' = (IF value = startDate THEN wallTimer ELSE w.timer)
           /\ shipPosition' = (IF value = startDate THEN shipPosition ELSE w.ship)
    /\ lastOp' = "setStartDate"
    /\ UNCHANGED << isPlayback, playbackHours, playTimer, simPending >>
    /\ PlayFrame

\* lines 327-342, read at elapsedHours after the start date; the three ship
\* effects run again for the flipped isPlayback
togglePlayback(elapsedHours) ==
    /\ ~Crashed
    /\ Settled
    /\ LET totalHours == TotalHours(SegmentsOf(graph, route))
           sinceStart == IF elapsedHours < 0 THEN 0 ELSE elapsedHours
           hours == IF isPlayback THEN playbackHours
                    ELSE IF route.kind = "route" /\ startDate # ""
                    THEN (IF totalHours > 0 THEN sinceStart % totalHours ELSE 0)
                    ELSE 0
           w == wallEffect(graph, route, startDate, ~isPlayback, shipPosition)
       IN  /\ playbackHours' = hours
           /\ isPlayback' = ~isPlayback
           /\ wallTimer' = w.timer
           /\ playTimer' = playbackEffect(graph, route, ~isPlayback)
           /\ shipPosition' = syncEffect(graph, route, ~isPlayback, hours, w.ship)
    /\ lastOp' = "togglePlayback"
    /\ UNCHANGED << startDate, simPending >>
    /\ PlayFrame

\* lines 289-306: one firing of the playback interval, with the segments and
\* the totalHours its effect closed over
playbackTick ==
    /\ ~Crashed
    /\ playTimer.on
    /\ LET \* the value the updater returns: 0 when totalHours <= 0
           wrapped == IF playTimer.totalHours <= 0 THEN 0
                      ELSE Wrap(playbackHours + stepHours, playTimer.totalHours)
       IN  /\ playbackHours' = wrapped
           /\ shipPosition' =
                  Written("playbackTick",
                          IF playTimer.totalHours <= 0 THEN NoPoint
                          ELSE PositionAt(playTimer.segments, wrapped))
           /\ simPending' = (simPending \cup
                               IF playbackHours # wrapped THEN {"sync"} ELSE {})
    /\ lastOp' = "playbackTick"
    /\ UNCHANGED << isPlayback, startDate, wallTimer, playTimer >>
    /\ PlayFrame

\* lines 264-272: one firing of the wall-clock interval, with the values its
\* effect closed over; the clock is read at some time after the start date
wallTick ==
    /\ ~Crashed
    /\ wallTimer.on
    /\ \E elapsedHours \in Elapsed(wallTimer.startDate) :
           shipPosition' =
               IF WallWrites(wallTimer)
               THEN Written("wallTick", getShipPosition(wallTimer.segments,
                                                        wallTimer.startDate, elapsedHours))
               ELSE shipPosition
    /\ lastOp' = "wallTick"
    /\ UNCHANGED << isPlayback, playbackHours, startDate, wallTimer, playTimer, simPending >>
    /\ PlayFrame

\* lines 258-319: the pending ship effects run in source order, each clearing
\* the interval it installed before
shipEffects ==
    /\ ~Crashed
    /\ simPending # {}
    /\ LET w == wallEffect(graph, route, startDate, isPlayback, shipPosition)
           afterWall == IF "wall" \in simPending THEN w.ship ELSE shipPosition
       IN  /\ wallTimer' = (IF "wall" \in simPending THEN w.timer ELSE wallTimer)
           /\ playTimer' = (IF "loop" \in simPending
                            THEN playbackEffect(graph, route, isPlayback) ELSE playTimer)
           /\ shipPosition' = (IF "sync" \in simPending
                               THEN syncEffect(graph, route, isPlayback, playbackHours,
                                               afterWall)
                               ELSE afterWall)
    /\ simPending' = {}
    /\ lastOp' = "shipEffects"
    /\ UNCHANGED << isPlayback, playbackHours, startDate >>
    /\ PlayFrame

NextPlayback ==
    \/ \E data \in WholePayloads : mountEffect(data)
    \/ \E id \in PlayOriginIds : setOriginId(id)
    \/ \E id \in PlayDestIds : setDestId(id)
    \/ storeReset
    \/ routeEffect
    \/ \E value \in StartDates : setStartDate(value)
    \/ \E elapsedHours \in Elapsed(startDate) : togglePlayback(elapsedHours)
    \/ playbackTick
    \/ wallTick
    \/ shipEffects

SpecPlayback == Init /\ [][NextPlayback]_vars

\* an installed interval keeps firing
SpecPlaybackFair == SpecPlayback /\ WF_vars(playbackTick)

(***************************************************************************)
(* The functions of utils/geo.ts, each applied once to arguments drawn     *)
(* from bounded sets.                                                      *)
(***************************************************************************)
\* two points either side of the antimeridian and one off the equator
GeoPoints == { << 1799, 0 >>, << -1799, 0 >>, << -1798, 1 >> }

\* polylines of lo to hi points of P
PolylinesOf(P, lo, hi) == UNION { [1..n -> P] : n \in lo..hi }

\* lists of 1 to MaxSegments polylines
SegmentLists(polylines) == UNION { [1..n -> polylines] : n \in 1..MaxSegments }

\* longitudes up to 180 degrees apart and more, at two latitudes
UnwrapPoints ==
    { << lon, 0 >> : lon \in {-1800, -1500, -1000, 400, 1000, 1800} } \cup { << 1700, 3 >> }

\* target distances (metres): before the start, on the route, beyond its end
DistancesKm == {-5000, 0, 10000, 22240, 30000, 90000}

GeoInputs ==
    { [op |-> "stitchRouteSegments", rawSegments |-> segs, startAnchor |-> a] :
        segs \in SegmentLists(PolylinesOf(GeoPoints, 0, MaxPoints)),
        a \in {NoAnchor, << -1799, 0 >>} }
    \cup { [op |-> "unwrapAntimeridian", coords |-> c] :
             c \in PolylinesOf(UnwrapPoints, 0, MaxCoords) }
    \cup { [op |-> "getPointAlongRoute", segments |-> segs, distanceKm |-> d] :
             segs \in {<< >>} \cup SegmentLists(PolylinesOf(GeoPoints, 1, MaxPoints)),
             d \in DistancesKm }

InitGeo ==
    /\ nodes = << >>
    /\ adjList = EmptyMap
    /\ ports = EmptyMap
    /\ chokepoints = {}
    /\ disabledPorts = {}
    /\ disabledChokepoints = {}
    /\ canalDelay = [name \in ChokepointNames |-> 0]
    /\ isGraphLoaded = FALSE
    /\ lastOp = "new"
    /\ call = NoCall
    /\ ret = NullResult
    /\ loadError = FALSE
    /\ originId = "" /\ destId = ""
    /\ route = NullResult
    /\ effectPending = FALSE
    /\ geoIn \in GeoInputs
    /\ geoOut = NoGeo
    /\ InitSolve
    /\ InitPlay

\* what a geometry call leaves alone
GeoFrame ==
    UNCHANGED << nodes, adjList, ports, chokepoints, disabledPorts, disabledChokepoints,
                 canalDelay, isGraphLoaded, call, ret, loadError, storeVars, geoIn,
                 solveVars, playVars >>

stitchCall ==
    /\ geoIn.op = "stitchRouteSegments" /\ geoOut = NoGeo
    /\ geoOut' = [op |-> geoIn.op,
                  segments |-> stitchRouteSegments(geoIn.rawSegments, geoIn.startAnchor)]
    /\ lastOp' = geoIn.op
    /\ GeoFrame

unwrapCall ==
    /\ geoIn.op = "unwrapAntimeridian" /\ geoOut = NoGeo
    /\ geoOut' = [op |-> geoIn.op, coords |-> unwrapAntimeridian(geoIn.coords)]
    /\ lastOp' = geoIn.op
    /\ GeoFrame

pointAlongCall ==
    /\ geoIn.op = "getPointAlongRoute" /\ geoOut = NoGeo
    /\ geoOut' = [op |-> geoIn.op,
                  point |-> getPointAlongRoute(geoIn.segments, geoIn.distanceKm)]
    /\ lastOp' = geoIn.op
    /\ GeoFrame

NextGeo == stitchCall \/ unwrapCall \/ pointAlongCall

SpecGeo == InitGeo /\ [][NextGeo]_vars

(***************************************************************************)
(* addDatelineBridges on its own: applied to up to MaxBridgeNodes nodes    *)
(* placed around the antimeridian and an adjacency of one lane, then       *)
(* applied a second time to the adjacency it returned.                     *)
(***************************************************************************)
\* << lat, lon >>: west and east candidates at several latitudes, a node just
\* inside -179.5, and a west node beyond -180
BridgePlaces ==
    { << 0, -1799 >>, << 4, -1795 >>, << 0, -1794 >>, << 0, -1990 >>,
      << 0, 1799 >>, << 5, 1795 >>, << 6, 1800 >> }

NodeNames == << "N1", "N2", "N3", "N4", "N5" >>

\* the node tables of n nodes N1..Nn on places of BridgePlaces
BridgeLayouts ==
    UNION { { [i \in 1..n |-> Node(NodeNames[i], pl[i][1], pl[i][2])] :
                pl \in [1..n -> BridgePlaces] } : n \in 0..MaxBridgeNodes }

BridgeInputs ==
    { [op |-> "addDatelineBridges", nodes |-> layout,
       adjList |-> BuildAdj(<< Edge("N1", "N2", 50000, << "Suez Canal" >>, "L12") >>,
                            1, EmptyMap)] : layout \in BridgeLayouts }

InitBridge ==
    /\ nodes = << >>
    /\ adjList = EmptyMap
    /\ ports = EmptyMap
    /\ chokepoints = {}
    /\ disabledPorts = {}
    /\ disabledChokepoints = {}
    /\ canalDelay = [name \in ChokepointNames |-> 0]
    /\ isGraphLoaded = FALSE
    /\ lastOp = "new"
    /\ call = NoCall
    /\ ret = NullResult
    /\ loadError = FALSE
    /\ originId = "" /\ destId = ""
    /\ route = NullResult
    /\ effectPending = FALSE
    /\ geoIn \in BridgeInputs
    /\ geoOut = NoGeo
    /\ InitSolve
    /\ InitPlay

\* addDatelineBridges(nodes, adjList) on the input adjacency
bridgeCall ==
    /\ geoIn.op = "addDatelineBridges" /\ geoOut = NoGeo
    /\ geoOut' = [op |-> geoIn.op, calls |-> 1,
                  adjList |-> addDatelineBridges(geoIn.nodes, geoIn.adjList)]
    /\ lastOp' = geoIn.op
    /\ GeoFrame

\* addDatelineBridges(nodes, adjList) again, on the adjacency it has extended
bridgeCallAgain ==
    /\ geoOut # NoGeo
    /\ geoOut.calls = 1
    /\ geoOut' = [geoOut EXCEPT !.calls = 2,
                                !.adjList = addDatelineBridges(geoIn.nodes, geoOut.adjList)]
    /\ lastOp' = geoIn.op
    /\ GeoFrame

NextBridge == bridgeCall \/ bridgeCallAgain

SpecBridge == InitBridge /\ [][NextBridge]_vars

(***************************************************************************)
(* Bridging through loadFromData, called any number of times, next to      *)
(* addDatelineBridges called twice on one adjacency.                       *)
(***************************************************************************)
InitRebridge == Init \/ InitBridge

NextRebridge ==
    \/ \E data \in ReloadPayloads : geoIn = NoGeo /\ loadFromDataDirect(data)
    \/ \E name \in ChokepointNames : geoIn = NoGeo /\ toggleChokepoint(name)
    \/ bridgeCall
    \/ bridgeCallAgain

SpecRebridge == InitRebridge /\ [][NextRebridge]_vars

(***************************************************************************)
(* DijkstraRouter.findPath step by step: one action per iteration of the   *)
(* while loop up to the loop over the neighbors, one per neighbor edge,    *)
(* one for the return.  JavaScript runs a call to completion, so no other  *)
(* operation runs while a solve is in progress.                            *)
(***************************************************************************)
SolvePortIds == {"PA", "PB", "PC", "PX"}

Idle == solver.status = "idle"

\* line 82 that never finds the node in visited
AlreadyVisited_m(s, nodeId) == FALSE

\* line 82: visited.has(innerCurrentNodeId)
AlreadyVisited(s, nodeId) == nodeId \in s.visited

\* line 85: this.graph.adjList[innerCurrentNodeId] || []
NeighborsOf(g, nodeId) == IF nodeId \in DOMAIN g.adjList THEN g.adjList[nodeId] ELSE << >>

\* what a step of the solve leaves alone
SolveFrame ==
    UNCHANGED << nodes, adjList, ports, chokepoints, disabledPorts, disabledChokepoints,
                 canalDelay, isGraphLoaded, loadError, storeVars, geoVars, playVars >>

\* lines 23-43: the early returns, else the locals are set up
beginSolve(startPortId, endPortId) ==
    /\ Idle
    /\ call' = [origin |-> startPortId, dest |-> endPortId,
                delays |-> delayPenaltiesOf(canalDelay)]
    /\ cursor' = NoCursor
    /\ expanded' = << >>
    /\ IF \/ startPortId \in disabledPorts \/ endPortId \in disabledPorts
          \/ PortNodeId(ports, startPortId) = "" \/ PortNodeId(ports, endPortId) = ""
       THEN /\ solver' = NoSolve
            /\ ret' = NullResult
            /\ lastOp' = "findPath"
       ELSE /\ solver' = SolverInit(PortNodeId(ports, startPortId))
            /\ ret' = NullResult
            /\ lastOp' = "solving"
    /\ SolveFrame

\* lines 45-85: the loop test, the dequeue, the destination test and the
\* visited test
dequeueStep ==
    /\ solver.status = "run"
    /\ cursor = NoCursor
    /\ IF solver.elements = << >>
       THEN /\ solver' = [solver EXCEPT !.status = "null"]
            /\ UNCHANGED << cursor, expanded >>
       ELSE LET innerCurrentNodeId == Head(solver.elements).element
                popped == [solver EXCEPT !.elements = Tail(@)]
            IN  IF innerCurrentNodeId \notin DOMAIN solver.distances
                THEN solver' = popped /\ UNCHANGED << cursor, expanded >>
                ELSE IF innerCurrentNodeId = PortNodeId(ports, call.dest)
                THEN /\ solver' = [popped EXCEPT !.status = "found"]
                     /\ UNCHANGED << cursor, expanded >>
                ELSE IF AlreadyVisited(solver, innerCurrentNodeId)
                THEN solver' = popped /\ UNCHANGED << cursor, expanded >>
                ELSE /\ solver' = [popped EXCEPT !.visited = @ \cup {innerCurrentNodeId}]
                     /\ expanded' = Append(expanded, innerCurrentNodeId)
                     /\ cursor' = IF NeighborsOf(graph, innerCurrentNodeId) = << >>
                                  THEN NoCursor
                                  ELSE [node |-> innerCurrentNodeId, idx |-> 1]
    /\ UNCHANGED << call, ret, lastOp >>
    /\ SolveFrame

\* lines 86-119: the body of the loop over the neighbors, for one edge
relaxStep ==
    /\ solver.status = "run"
    /\ cursor # NoCursor
    /\ LET neighbors == NeighborsOf(graph, cursor.node)
           after == RelaxEdge(graph, disabledChokepoints, call.delays,
                              PortNodeId(ports, call.dest), cursor.node,
                              solver.distances[cursor.node], neighbors[cursor.idx], solver)
       IN  /\ solver' = after
           /\ cursor' = IF after.status # "run" \/ cursor.idx = Len(neighbors)
                        THEN NoCursor
                        ELSE [cursor EXCEPT !.idx = @ + 1]
    /\ UNCHANGED << call, ret, lastOp, expanded >>
    /\ SolveFrame

\* lines 52-79 and 122: the call returns (or raises) and its locals are gone
returnStep ==
    /\ solver.status \in {"found", "null", "throw"}
    /\ ret' = CASE solver.status = "found" ->
                     Reconstruct(graph, PortNodeId(ports, call.origin),
                                 PortNodeId(ports, call.dest), solver)
                [] solver.status = "throw" -> ThrowResult
                [] OTHER -> NullResult
    /\ lastOp' = "findPath"
    /\ solver' = NoSolve
    /\ cursor' = NoCursor
    /\ expanded' = << >>
    /\ UNCHANGED call
    /\ SolveFrame

SolveStep == dequeueStep \/ relaxStep \/ returnStep

NextSolve ==
    \/ \E data \in Payloads : Idle /\ loadFromData(data)
    \/ \E name \in ChokepointNames : Idle /\ toggleChokepoint(name)
    \/ \E o \in SolvePortIds, d \in SolvePortIds : beginSolve(o, d)
    \/ dequeueStep
    \/ relaxStep
    \/ returnStep

SpecSolve == Init /\ [][NextSolve]_vars

\* a call that has started runs on until it returns
SpecSolveFair == SpecSolve /\ WF_vars(SolveStep)

(***************************************************************************)
(* Reference notions the properties are stated with.                       *)
(***************************************************************************)
\* the last operation was a findPath call: call and ret describe it, and the
\* graph and the blockade sets are those the call ran against
Solved == lastOp = "findPath"

Routed == Solved /\ ret.kind = "route"

\* the chokepoints an edge carries
CpsOf(edge) == SeqToSet(edge.chokepoints)

\* every node id the graph mentions
AllNodeIds(g) ==
    NodeIds(g.nodes) \cup DOMAIN g.adjList
      \cup UNION { UNION { { g.adjList[n][i].source, g.adjList[n][i].target } :
                             i \in 1..Len(g.adjList[n]) } : n \in DOMAIN g.adjList }

\* every distinct edge record of the adjacency
Lanes(g) == UNION { SeqToSet(g.adjList[n]) : n \in DOMAIN g.adjList }

\* the weight of an edge under a delay map, stated without the router:
\* dist_km plus SHIP_SPEED_KM_H per delay hour of each chokepoint on it
DelayedHours(delays, edge) ==
    SeqSum([i \in 1..Len(edge.chokepoints) |->
              IF edge.chokepoints[i] \in DOMAIN delays /\ delays[edge.chokepoints[i]] > 0
              THEN delays[edge.chokepoints[i]] ELSE 0])

RouteDelayedHours(delays, edges) ==
    SeqSum([i \in 1..Len(edges) |-> DelayedHours(delays, edges[i])])

RefWeight(delays, edge) == edge.dist_km + SHIP_SPEED_KM_H * DelayedHours(delays, edge)

\* one more than any path cost of the model
Unreachable == -1

MinOf(S) == CHOOSE x \in S : \A y \in S : x <= y

\* one Bellman-Ford round over the edges that carry no chokepoint of blocked:
\* an edge listed under m leads from m to its other endpoint
RelaxAll(g, blocked, delays, dist) ==
    [n \in DOMAIN dist |->
        LET via == UNION { { dist[m] + RefWeight(delays, g.adjList[m][i]) :
                               i \in { j \in 1..Len(g.adjList[m]) :
                                         /\ CpsOf(g.adjList[m][j]) \cap blocked = {}
                                         /\ (IF g.adjList[m][j].source = m
                                             THEN g.adjList[m][j].target
                                             ELSE g.adjList[m][j].source) = n } } :
                             m \in { x \in DOMAIN g.adjList : dist[x] # Unreachable } }
            cand == via \cup (IF dist[n] = Unreachable THEN {} ELSE {dist[n]})
        IN  IF cand = {} THEN Unreachable ELSE MinOf(cand)]

RECURSIVE Rounds(_, _, _, _, _)
Rounds(g, blocked, delays, dist, k) ==
    IF k = 0 THEN dist ELSE Rounds(g, blocked, delays, RelaxAll(g, blocked, delays, dist), k - 1)

\* the least cost of a path from node s to node t over the non-blocked edges,
\* Unreachable when there is none
MinCost(g, blocked, delays, s, t) ==
    LET V == AllNodeIds(g) \cup {s, t}
        d0 == [n \in V |-> IF n = s THEN 0 ELSE Unreachable]
    IN  Rounds(g, blocked, delays, d0, Cardinality(V))[t]

Reach(g, blocked, s, t) == MinCost(g, blocked, EmptyMap, s, t) # Unreachable

\* every path from s to t uses an edge that carries chokepoint cp
EveryPathUses(g, cp, s, t) == Reach(g, {}, s, t) /\ ~Reach(g, {cp}, s, t)

\* the number of lanes that end at node n
Degree(g, n) == Cardinality({ e \in Lanes(g) : e.source = n \/ e.target = n })

\* the lanes form one simple chain whose two ends are s and t
IsChain(g, s, t) ==
    LET ends == UNION { {e.source, e.target} : e \in Lanes(g) }
    IN  /\ s # t
        /\ \A e \in Lanes(g) : e.source # e.target
        /\ {s, t} \subseteq ends
        /\ Degree(g, s) = 1 /\ Degree(g, t) = 1
        /\ \A n \in ends \ {s, t} : Degree(g, n) = 2
        /\ Cardinality(Lanes(g)) = Cardinality(ends) - 1
        /\ Reach(g, {}, s, t)

\* the port names a node of the graph
Resolves(g, portId) == portId \in DOMAIN g.ports /\ HasNode(g.nodes, g.ports[portId].node_id)

\* line 89: the node an edge listed under n leads to
OtherEnd(edge, n) == IF edge.source = n THEN edge.target ELSE edge.source

\* S with the membership of x flipped
Flip(S, x) == (S \ {x}) \cup ({x} \ S)

\* a chokepoint name that no lane carries
OffEdgeName == "Bosphorus"

\* delay maps over the chokepoint names and OffEdgeName with entries from -1
\* to MaxDelayHours + 1 hours
PenaltyMaps ==
    UNION { [S -> -1..(MaxDelayHours + 1)] : S \in SUBSET (ChokepointNames \cup {OffEdgeName}) }

\* the maps of PenaltyMaps whose entries for the chokepoint names are zero or
\* negative
IdleMaps ==
    { d \in PenaltyMaps : \A c \in DOMAIN d \cap ChokepointNames : d[c] <= 0 }

\* no two adjacent points of the polyline are within epsilonKm of each other
NoNearDuplicates(line) ==
    \A i \in 1..(Len(line) - 1) : haversineDistancePoints(line[i], line[i + 1]) > epsilonKm

RECURSIVE Concat(_)
\* the concatenation of a sequence of sequences
Concat(ss) == IF ss = << >> THEN << >> ELSE Head(ss) \o Concat(Tail(ss))

\* the sub-segments << p1, p2 >> of a list of segments, in route order
SubSegments(segments) ==
    Concat([k \in 1..Len(segments) |->
              [i \in 1..(Len(segments[k]) - 1) |-> << segments[k][i], segments[k][i + 1] >>]])

SubLength(sub) == haversineDistancePoints(sub[1], sub[2])

\* the route length before sub-segment j
LengthBefore(subs, j) == SeqSum([i \in 1..(j - 1) |-> SubLength(subs[i])])

\* a fine-scale longitude difference taken the short way round
ShortWay(x) == ((x + 1800 * FineScale) % (3600 * FineScale)) - 1800 * FineScale

\* pt is the point of the sub-segment (the short way from p1 to p2) at
\* distance remaining from p1, up to the rounding of one output unit
OnSubSegment(pt, sub, remaining) ==
    LET p1   == sub[1]
        p2   == sub[2]
        len  == SubLength(sub)
        dLat == (pt[2] - p1[2] * FineScale) * len - (p2[2] - p1[2]) * FineScale * remaining
        dLon == ShortWay(pt[1] - p1[1] * FineScale) * len
                  - wrappedLonDelta(p1[1], p2[1]) * FineScale * remaining
    IN  /\ Abs(dLat) < len
        /\ Abs(dLon) < len
        /\ pt[1] >= -1800 * FineScale /\ pt[1] <= 1800 * FineScale

RECURSIVE LeadsBack(_, _, _, _)
\* following the back-pointers from curr reaches start within fuel steps
LeadsBack(previous, start, curr, fuel) ==
    \/ curr = start
    \/ /\ fuel > 0
       /\ curr \in DOMAIN previous
       /\ LeadsBack(previous, start, previous[curr].node, fuel - 1)

\* seg, turned round when its last point is nearer ref than its first point
\* (not turned when there is no ref)
Oriented(seg, ref) ==
    IF ref # << >> /\ haversineDistancePoints(ref, seg[Len(seg)])
                        < haversineDistancePoints(ref, seg[1])
    THEN Reverse(seg) ELSE seg

RECURSIVE OrientedRoute(_, _, _, _)
\* the points of the non-empty segments from index k on, each segment
\* oriented on ref (the start anchor, then the last point laid down), without
\* the first point of a segment that lies within epsilonKm of ref
OrientedRoute(segs, k, ref, first) ==
    IF k > Len(segs) THEN << >>
    ELSE IF Len(segs[k]) = 0 THEN OrientedRoute(segs, k + 1, ref, first)
    ELSE LET o == Oriented(segs[k], ref)
             kept == IF ~first /\ haversineDistancePoints(ref, o[1]) <= epsilonKm
                     THEN Tail(o) ELSE o
         IN  kept \o OrientedRoute(segs, k + 1, o[Len(o)], FALSE)

RECURSIVE Collapse(_)
\* line without the repetitions of a point right after itself
Collapse(line) ==
    IF Len(line) <= 1 THEN line
    ELSE IF line[1] = line[2] THEN Collapse(Tail(line))
    ELSE << line[1] >> \o Collapse(Tail(line))

\* the edge is a synthetic dateline bridge
IsBridge(edge) ==
    /\ edge.lane_id = "DATELINE_BRIDGE_" \o edge.source \o "_" \o edge.target
    /\ edge.dist_km = bridgeCostKm
    /\ edge.chokepoints = << >>

\* one node at longitude -179.9, the other at 179.9, latitudes within 0.5
FacingDateline(a, b) ==
    /\ {a.lon, b.lon} = {-1799, 1799}
    /\ Abs(a.lat - b.lat) <= 5

\* of a and b, the one west of the antimeridian (negative longitude) has the
\* other as its strictly nearest east-side node within 0.5 degrees latitude
NearestAcross(g, a, b) ==
    LET w == IF a.lon < 0 THEN a ELSE b
        e == IF a.lon < 0 THEN b ELSE a
    IN  \A v \in SeqToSet(g.nodes) :
           (v.lon >= 1795 /\ v.id # e.id /\ Abs(w.lat - v.lat) <= 5)
             => BridgeDist2(w, e) < BridgeDist2(w, v)

\* the entries of list that are bridges leaving node id
BridgesFrom(list, id) == SelectSeq(list, LAMBDA e : IsBridge(e) /\ e.source = id)

\* the adjacency list of id, empty when id has none
ListOf(adj, id) == IF id \in DOMAIN adj THEN adj[id] ELSE << >>

RECURSIVE BridgeCountIn(_, _)
\* the number of bridge entries in the adjacency lists of ids
BridgeCountIn(adj, ids) ==
    IF ids = {} THEN 0
    ELSE LET id == CHOOSE x \in ids : TRUE
         IN  Len(SelectSeq(adj[id], IsBridge)) + BridgeCountIn(adj, ids \ {id})

\* the number of bridge entries in an adjacency
BridgeCount(adj) == BridgeCountIn(adj, DOMAIN adj)

\* the east-side nodes within 0.5 degrees of latitude of u
EastOf(layout, u) ==
    { v \in SeqToSet(layout) : v.lon >= 1795 /\ Abs(u.lat - v.lat) <= 5 }

\* u is a west-side node that has an east-side node less than 2 degrees away
Matched(layout, u) ==
    /\ u.lon <= -1795
    /\ \E v \in EastOf(layout, u) : BridgeDist2(u, v) < 400

\* the last call was between two ports anchored to nodes facing each other
\* across the antimeridian
DatelineCall ==
    /\ Solved
    /\ Resolves(graph, call.origin) /\ Resolves(graph, call.dest)
    /\ FacingDateline(NodeAt(nodes, PortNodeId(ports, call.origin)),
                      NodeAt(nodes, PortNodeId(ports, call.dest)))

(***************************************************************************)
(* Properties.                                                             *)
(***************************************************************************)

\* C1: a route returned by findPath never contains an edge that carries a
\* chokepoint currently in disabledChokepoints, and isEdgeDisabled is true of
\* an edge exactly when at least one of its chokepoints is in the set.
C1_NoDisabledEdgeOnRoute ==
    /\ Routed => \A i \in 1..Len(ret.edges) :
                    CpsOf(ret.edges[i]) \cap disabledChokepoints = {}
    /\ \A e \in Lanes(graph) :
          isEdgeDisabled(disabledChokepoints, e) <=> (CpsOf(e) \cap disabledChokepoints # {})

\* C1 witness: a route was returned while a blockade closes an edge that the
\* route of the same call without blockades runs over.
C1_Witness ==
    /\ Routed
    /\ disabledChokepoints # {}
    /\ LET open == findPath(graph, disabledPorts, {}, call.origin, call.dest, call.delays)
       IN  /\ open.kind = "route"
           /\ \E i \in 1..Len(open.edges) :
                 CpsOf(open.edges[i]) \cap disabledChokepoints # {}

\* C2 (as claimed): a returned route has the least penalized cost of all
\* paths between the two port nodes over non-disabled edges, and for two
\* enabled ports that name nodes NotFound is returned only when no such path
\* exists.
C2_LeastCost ==
    Solved =>
      LET best == MinCost(graph, disabledChokepoints, call.delays,
                          PortNodeId(ports, call.origin), PortNodeId(ports, call.dest))
      IN  /\ ret.kind = "route" => ret.totalDist = best
          /\ ( /\ ret.kind = "null"
               /\ {call.origin, call.dest} \cap disabledPorts = {}
               /\ Resolves(graph, call.origin) /\ Resolves(graph, call.dest) )
             => best = Unreachable

C4_NullOnBadPort ==
    (Solved /\ (~Resolves(graph, call.origin) \/ ~Resolves(graph, call.dest)))
      => ret = NullResult

\* C5: when every path between the two port nodes uses an edge carrying
\* chokepoint cp, a findPath call without penalties returns a route over such
\* an edge while cp is enabled (on a chain, the route over all chain edges
\* with totalDist the sum of their distances), NotFound once cp is toggled,
\* and the first route again once cp is toggled a second time.
C5_ChokepointCutsChain ==
    \A cp \in ChokepointNames \ disabledChokepoints :
      LET s == PortNodeId(ports, call.origin)
          t == PortNodeId(ports, call.dest)
      IN  ( /\ Solved
            /\ DOMAIN call.delays = {}
            /\ {call.origin, call.dest} \cap disabledPorts = {}
            /\ Resolves(graph, call.origin) /\ Resolves(graph, call.dest)
            /\ Reach(graph, disabledChokepoints, s, t)
            /\ EveryPathUses(graph, cp, s, t) )
          => LET off    == toggleChokepointSet(disabledChokepoints, cp)
                 closed == findPath(graph, disabledPorts, off,
                                    call.origin, call.dest, call.delays)
                 again  == findPath(graph, disabledPorts, toggleChokepointSet(off, cp),
                                    call.origin, call.dest, call.delays)
             IN  /\ ret.kind = "route"
                 /\ \E i \in 1..Len(ret.edges) : cp \in CpsOf(ret.edges[i])
                 /\ IsChain(graph, s, t) =>
                      /\ SeqToSet(ret.edges) = Lanes(graph)
                      /\ Len(ret.edges) = Cardinality(Lanes(graph))
                      /\ ret.totalDist = SumDist(ret.edges)
                 /\ closed = NullResult
                 /\ again = ret

\* C5 witness: the chain N1-N2-N3 of two 111.2 km edges with the chokepoint
\* on N2-N3 was solved from N1 to N3 with the chokepoint enabled.
C5_Witness ==
    /\ Routed
    /\ DOMAIN call.delays = {}
    /\ IsChain(graph, PortNodeId(ports, call.origin), PortNodeId(ports, call.dest))
    /\ ret.pathNodeIds = << "N1", "N2", "N3" >>
    /\ ret.totalDist = 222400
    /\ \E cp \in ChokepointNames \ disabledChokepoints :
          /\ cp \in CpsOf(ret.edges[2])
          /\ EveryPathUses(graph, cp, PortNodeId(ports, call.origin),
                           PortNodeId(ports, call.dest))

\* C6 (as claimed): the reported totalDist is the unpenalized sum of dist_km
\* over the edges of the route.
C6_UnpenalizedTotal == Routed => ret.totalDist = SumDist(ret.edges)

\* C6 (amended): the reported totalDist is the unpenalized sum of dist_km
\* plus 40.74 km for every delay hour of every delayed chokepoint on the
\* edges of the route; it is the unpenalized sum exactly when no edge of the
\* route carries a delayed chokepoint.
C6_TotalIncludesDelay ==
    Routed =>
      /\ ret.totalDist - SumDist(ret.edges)
           = SHIP_SPEED_KM_H * RouteDelayedHours(call.delays, ret.edges)
      /\ (ret.totalDist = SumDist(ret.edges))
           <=> (\A i \in 1..Len(ret.edges) :
                   \A cp \in CpsOf(ret.edges[i]) :
                      cp \notin DOMAIN call.delays \/ call.delays[cp] <= 0)

\* C6 witness: a route over an edge with two delayed chokepoints.
C6_Witness ==
    /\ Routed
    /\ \E i \in 1..Len(ret.edges) :
          /\ Cardinality(CpsOf(ret.edges[i])) = 2
          /\ CpsOf(ret.edges[i]) \subseteq DOMAIN call.delays

\* C7: totalDist of a returned route is the sum, over its edges in order, of
\* the weight they were relaxed with: dist_km plus the delay penalty of the
\* edge.
C7_TotalIsSumOfWeights ==
    Routed =>
      ret.totalDist = SeqSum([i \in 1..Len(ret.edges) |-> edgeWeight(call.delays, ret.edges[i])])

\* C7 witness: a route of two or more edges, one of them penalized.
C7_Witness ==
    /\ Routed
    /\ Len(ret.edges) >= 2
    /\ \E i \in 1..Len(ret.edges) :
          edgeWeight(call.delays, ret.edges[i]) > ret.edges[i].dist_km

\* C8 (as claimed): with no blockade and no penalty, when findPath(A, B)
\* returns a route, findPath(B, A) returns a route of the same totalDist.
C8_Symmetric ==
    ( /\ Routed
      /\ disabledPorts = {} /\ disabledChokepoints = {}
      /\ DOMAIN call.delays = {} )
    => LET back == findPath(graph, disabledPorts, disabledChokepoints,
                            call.dest, call.origin, call.delays)
       IN  back.kind = "route" /\ back.totalDist = ret.totalDist

\* C9 (as claimed): after a chokepoint carried by an edge of the returned
\* route is disabled, the same call returns NotFound or a route whose
\* totalDist is at least the former total.
C9_BlockadeMonotone ==
    Routed =>
      \A cp \in UNION { CpsOf(ret.edges[i]) : i \in 1..Len(ret.edges) } :
        LET after == findPath(graph, disabledPorts,
                              toggleChokepointSet(disabledChokepoints, cp),
                              call.origin, call.dest, call.delays)
        IN  after.kind = "null" \/ (after.kind = "route" /\ after.totalDist >= ret.totalDist)

C11_BridgeBetweenDatelineNodes ==
    DatelineCall =>
      /\ ret.kind = "route"
      /\ \E i \in 1..Len(ret.edges) : IsBridge(ret.edges[i])
      /\ ret.totalDist < 50000

\* C11 (amended): the same, for two enabled ports, when the node at 179.9 is
\* the strictly nearest east-side candidate of the node at -179.9.
C11_BridgeToNearestCandidate ==
    ( /\ DatelineCall
      /\ {call.origin, call.dest} \cap disabledPorts = {}
      /\ NearestAcross(graph, NodeAt(nodes, PortNodeId(ports, call.origin)),
                       NodeAt(nodes, PortNodeId(ports, call.dest))) )
    => /\ ret.kind = "route"
       /\ \E i \in 1..Len(ret.edges) : IsBridge(ret.edges[i])
       /\ ret.totalDist < 50000

\* C11 witness: the bridge was taken from the east-side to the west-side
\* port although the long way round over N1 is open as well.
C11_Witness ==
    /\ DatelineCall
    /\ Routed
    /\ nodes = DatelineNodes
    /\ NodeAt(nodes, PortNodeId(ports, call.origin)).lon = 1799
    /\ {"L12", "L13"} \subseteq { e.lane_id : e \in Lanes(graph) }
    /\ disabledChokepoints = {}
    /\ Len(ret.edges) = 1 /\ IsBridge(ret.edges[1])
    /\ ret.totalDist = bridgeCostKm

\* C12: togglePort and toggleChokepoint flip the membership of one id in
\* their disabled set, whether or not the id is known to the graph; a second
\* toggle of the id restores the set; the other disabled set, nodes, ports,
\* chokepoints and adjacency stay as they are.
C12_ToggleFlipsMembership ==
    [][ /\ lastOp' = "togglePort" =>
             /\ \E id \in TogglePortIds :
                   /\ disabledPorts' = Flip(disabledPorts, id)
                   /\ togglePortSet(disabledPorts', id) = disabledPorts
             /\ UNCHANGED << disabledChokepoints, nodes, ports, chokepoints, adjList >>
        /\ lastOp' = "toggleChokepoint" =>
             /\ \E name \in ChokepointNames :
                   /\ disabledChokepoints' = Flip(disabledChokepoints, name)
                   /\ toggleChokepointSet(disabledChokepoints', name) = disabledChokepoints
             /\ UNCHANGED << disabledPorts, nodes, ports, chokepoints, adjList >> ]_vars

\* C12 witness: before any load (no id is known) a chokepoint was toggled off
\* again while a port id is in disabledPorts.
C12_Witness ==
    /\ ~isGraphLoaded
    /\ ports = EmptyMap /\ chokepoints = {}
    /\ lastOp = "toggleChokepoint"
    /\ disabledChokepoints = {}
    /\ disabledPorts # {}

\* C13: reset leaves disabledPorts and disabledChokepoints empty, so no edge
\* is disabled and no port is blocked, and does not change nodes, ports,
\* chokepoints or adjacency.
C13_ResetClearsBlockades ==
    [][ lastOp' = "reset" =>
          /\ disabledPorts' = {} /\ disabledChokepoints' = {}
          /\ \A e \in Lanes(graph') : ~isEdgeDisabled(disabledChokepoints', e)
          /\ \A p \in DOMAIN ports' : p \notin disabledPorts'
          /\ UNCHANGED << nodes, ports, chokepoints, adjList >> ]_vars

\* C13 witness: reset ran on a loaded graph that has lanes with chokepoints.
C13_Witness ==
    /\ lastOp = "reset"
    /\ isGraphLoaded
    /\ \E e \in Lanes(graph) : Cardinality(CpsOf(e)) = 2
    /\ disabledPorts = {} /\ disabledChokepoints = {}

\* C14: the weight of an edge is dist_km plus 40.74 km per hour of every
\* chokepoint on it that has a positive entry in the delay map, each adding
\* independently; zero, negative and missing entries and entries for
\* chokepoints not on the edge add nothing, and a findPath call whose map has
\* only such entries returns what the call without a map returns.
C14_PositiveDelaysOnly ==
    /\ lastOp = "loadFromData" =>
          \A e \in Lanes(graph) : \A d \in PenaltyMaps :
             /\ edgeWeight(d, e) = RefWeight(d, e)
             /\ edgeWeight(d, e) - e.dist_km
                  = SeqSum([i \in 1..Len(e.chokepoints) |->
                              edgeWeight(d, [e EXCEPT !.chokepoints = << e.chokepoints[i] >>])
                                - e.dist_km])
    /\ (Solved /\ DOMAIN call.delays = {}) =>
          \A d \in IdleMaps :
             findPath(graph, disabledPorts, disabledChokepoints, call.origin, call.dest, d) = ret

\* C14 witness: a call without delays returned a route over a chokepoint
\* whose positive delay would have changed the answer.
C14_Witness ==
    /\ Routed
    /\ DOMAIN call.delays = {}
    /\ \E i \in 1..Len(ret.edges) : \E cp \in CpsOf(ret.edges[i]) :
          findPath(graph, disabledPorts, disabledChokepoints, call.origin, call.dest,
                   [c \in {cp} |-> 1]).pathNodeIds # ret.pathNodeIds

\* C15 (as claimed): a load call that raises leaves nodes, ports, chokepoints
\* and adjacency as they were, so that findPath answers after it as before.
C15_FailedLoadKeepsIndex ==
    [][ (lastOp' = "loadFromData" /\ loadError') =>
          /\ UNCHANGED << nodes, ports, chokepoints, adjList >>
          /\ \A o \in QueryPortIds, d \in QueryPortIds :
                findPath(graph', disabledPorts', disabledChokepoints', o, d, EmptyMap)
                  = findPath(graph, disabledPorts, disabledChokepoints, o, d, EmptyMap) ]_vars

\* C16 (as claimed): after a successful load every edge endpoint of the
\* adjacency and every port's node_id is a key of nodes (a payload with a
\* port on an unknown node is rejected, so it is never the loaded one).
C16_LoadedReferencesResolve ==
    (isGraphLoaded /\ ~loadError) =>
      /\ \A e \in Lanes(graph) : {e.source, e.target} \subseteq NodeIds(nodes)
      /\ \A p \in DOMAIN ports : ports[p].node_id \in NodeIds(nodes)

\* C17 (as claimed): the merged polyline stitched from segments that have no
\* two adjacent points within the 10-metre epsilon has no two adjacent
\* points within 10 metres of each other either.
C17_NoAdjacentDuplicates ==
    ( /\ geoOut.op = "stitchRouteSegments"
      /\ \A k \in 1..Len(geoIn.rawSegments) : NoNearDuplicates(geoIn.rawSegments[k]) )
    => \A k \in 1..Len(geoOut.segments) : NoNearDuplicates(geoOut.segments[k])

\* C18 (as claimed): unwrapAntimeridian returns a polyline of the same
\* length with the same latitudes, every longitude equal to the input one
\* modulo 360 degrees, and no two consecutive points more than 180 degrees
\* apart in longitude.
C18_UnwrapContinuous ==
    geoOut.op = "unwrapAntimeridian" =>
      /\ Len(geoOut.coords) = Len(geoIn.coords)
      /\ \A i \in 1..Len(geoIn.coords) :
            /\ geoOut.coords[i][2] = geoIn.coords[i][2]
            /\ (geoOut.coords[i][1] - geoIn.coords[i][1]) % 3600 = 0
      /\ \A i \in 1..(Len(geoOut.coords) - 1) :
            Abs(geoOut.coords[i + 1][1] - geoOut.coords[i][1]) <= 1800

\* C19: for a non-empty list of segments getPointAlongRoute returns the
\* first point of the first segment when d <= 0, the last point of the last
\* segment when d exceeds the route length, and otherwise the point at
\* distance d on the sub-segment of non-zero length that contains d; a
\* result is returned also when consecutive points are equal.
C19_PointAlongRoute ==
    (geoOut.op = "getPointAlongRoute" /\ Len(geoIn.segments) > 0) =>
      LET segs  == geoIn.segments
          d     == geoIn.distanceKm
          subs  == SubSegments(segs)
          total == LengthBefore(subs, Len(subs) + 1)
      IN  /\ geoOut.point # NoPoint
          /\ d <= 0 => geoOut.point = Fine(segs[1][1])
          /\ d > total => geoOut.point = Fine(segs[Len(segs)][Len(segs[Len(segs)])])
          /\ (0 < d /\ d <= total) =>
                \E j \in 1..Len(subs) :
                   /\ SubLength(subs[j]) > 0
                   /\ LengthBefore(subs, j) < d
                   /\ d <= LengthBefore(subs, j) + SubLength(subs[j])
                   /\ OnSubSegment(geoOut.point, subs[j], d - LengthBefore(subs, j))

\* C19 witness: a point strictly inside a sub-segment that crosses the
\* antimeridian, reached after a sub-segment of two equal points.
C19_Witness ==
    /\ geoOut.op = "getPointAlongRoute"
    /\ geoIn.segments = << << << 1799, 0 >>, << 1799, 0 >> >>,
                           << << 1799, 0 >>, << -1799, 0 >> >> >>
    /\ geoIn.distanceKm = 10000
    /\ geoOut.point[1] > 1799 * FineScale
    /\ geoOut.point[1] < 1800 * FineScale

\* C20 (as claimed): once the route effect has run, the stored route is what
\* findPath(originId, destId, current penalties) returns against the current
\* disabled sets, and null when the graph is not loaded, origin or
\* destination is unset, or the two are equal.
C20_RouteFollowsState ==
    ~effectPending =>
      route = IF ~isGraphLoaded \/ originId = "" \/ destId = "" \/ originId = destId
              THEN NullResult
              ELSE findPath(graph, disabledPorts, disabledChokepoints, originId, destId,
                            delayPenaltiesOf(canalDelay))

\* C21 (as claimed): every edge of the loaded index, dateline bridges
\* included, costs at least the heuristic distance between its two endpoints,
\* and the heuristic from a node to a destination never exceeds the least
\* cost of a path between them.
C21_HeuristicAdmissible ==
    lastOp = "loadFromData" =>
      /\ \A e \in Lanes(graph) :
            (HasNode(nodes, e.source) /\ HasNode(nodes, e.target))
              => e.dist_km >= heuristic(NodeAt(nodes, e.source), NodeAt(nodes, e.target))
      /\ \A n \in NodeIds(nodes), t \in NodeIds(nodes) :
            Reach(graph, {}, n, t)
              => heuristic(NodeAt(nodes, n), NodeAt(nodes, t))
                   <= MinCost(graph, {}, EmptyMap, n, t)

\* C22: every findPath call terminates; a node's neighbors are relaxed at
\* most once per call; the search stops, without a further expansion, when
\* the destination node is dequeued; and once the queue is empty the call
\* returns NotFound.
C22_SolveTerminates ==
    /\ [](\A i \in 1..Len(expanded), j \in 1..Len(expanded) :
             i # j => expanded[i] # expanded[j])
    /\ [][ ( /\ solver.status = "run" /\ cursor = NoCursor
             /\ solver.elements # << >>
             /\ Head(solver.elements).element = PortNodeId(ports, call.dest)
             /\ PortNodeId(ports, call.dest) \in DOMAIN solver.distances )
           => (solver'.status = "found" /\ expanded' = expanded) ]_vars
    /\ [][ solver.status = "found" => (Idle' /\ ret'.kind # "null") ]_vars
    /\ [][ (solver.status = "run" /\ cursor = NoCursor /\ solver.elements = << >>)
           => solver'.status = "null" ]_vars
    /\ [][ solver.status = "null" => (Idle' /\ ret' = NullResult) ]_vars
    /\ (solver.status = "run") ~> Idle

\* C22 witness: the queue ran empty after three nodes were expanded, the
\* destination not being among them.
C22_Witness ==
    /\ solver.status = "null"
    /\ Len(expanded) = 3
    /\ PortNodeId(ports, call.dest) \notin SeqToSet(expanded)

\* C23: after load, for every edge in the adjacency list of a node n that
\* leads to node m, the adjacency list of m holds an edge that leads back to
\* n with the same dist_km and the same chokepoints.
C23_AdjacencySymmetric ==
    isGraphLoaded =>
      \A n \in DOMAIN adjList : \A i \in 1..Len(adjList[n]) :
         LET e == adjList[n][i]
             m == OtherEnd(e, n)
         IN  /\ m \in DOMAIN adjList
             /\ \E j \in 1..Len(adjList[m]) :
                   /\ OtherEnd(adjList[m][j], m) = n
                   /\ adjList[m][j].dist_km = e.dist_km
                   /\ adjList[m][j].chokepoints = e.chokepoints

\* C23 witness: the loaded adjacency holds a bridge pair next to source
\* lanes, one of them carrying two chokepoints.
C23_Witness ==
    /\ lastOp = "loadFromData"
    /\ \E e \in Lanes(graph) : IsBridge(e)
    /\ \E e \in Lanes(graph) : ~IsBridge(e) /\ Cardinality(CpsOf(e)) = 1
    /\ Cardinality(Lanes(graph)) >= 5

\* C24: addDatelineBridges leaves the entries of the adjacency in place and
\* adds, for each node u with lon <= -179.5 that has a node with lon >= 179.5
\* within 0.5 degrees of latitude and less than 2.0 degrees of combined
\* distance, one bridge u -> v under u and one bridge v -> u under v (cost
\* 0.001, no chokepoints), v being a nearest such node; it adds nothing for
\* any other node, and nothing at all when one side has no candidate.
C24_OneBridgePairPerWestNode ==
    (geoOut # NoGeo /\ geoOut.op = "addDatelineBridges" /\ geoOut.calls = 1) =>
      LET layout == geoIn.nodes
          before == geoIn.adjList
          after  == geoOut.adjList
          west   == { u \in SeqToSet(layout) : Matched(layout, u) }
      IN  /\ \A id \in DOMAIN after :
                /\ SubSeq(after[id], 1, Len(ListOf(before, id))) = ListOf(before, id)
                /\ \A k \in (Len(ListOf(before, id)) + 1)..Len(after[id]) :
                      IsBridge(after[id][k]) /\ after[id][k].source = id
          /\ DOMAIN before \subseteq DOMAIN after
          /\ \A u \in SeqToSet(layout) :
                IF u \in west
                THEN \E v \in EastOf(layout, u) :
                        /\ \A w \in EastOf(layout, u) : BridgeDist2(u, v) <= BridgeDist2(u, w)
                        /\ Len(BridgesFrom(after[u.id], u.id)) = 1
                        /\ BridgesFrom(after[u.id], u.id)[1].target = v.id
                        /\ Len(SelectSeq(BridgesFrom(after[v.id], v.id),
                                         LAMBDA e : e.target = u.id)) = 1
                ELSE \A id \in DOMAIN after :
                        \A k \in 1..Len(after[id]) :
                           IsBridge(after[id][k]) =>
                             (after[id][k].source # u.id \/ u.lon >= 1795)
          /\ BridgeCount(after) = 2 * Cardinality(west)
          /\ ( (\A n \in SeqToSet(layout) : ~(n.lon <= -1795))
                 \/ (\A n \in SeqToSet(layout) : ~(n.lon >= 1795)) )
               => after = before

\* C24 witness: of three nodes, the west-side node N1 has two east-side
\* candidates and was bridged to one of them.
C24_Witness ==
    /\ geoOut # NoGeo /\ geoOut.op = "addDatelineBridges" /\ geoOut.calls = 1
    /\ BridgeCount(geoOut.adjList) = 2
    /\ Len(geoIn.nodes) = 3
    /\ Cardinality(EastOf(geoIn.nodes, geoIn.nodes[1])) = 2
    /\ geoIn.nodes[1].lon <= -1795

\* C25: a second addDatelineBridges call on the adjacency the first one
\* extended leaves two bridges per direction for each matched pair; after
\* any number of loadFromData calls the adjacency holds exactly one bridge
\* per direction for each matched pair of the loaded nodes.
C25_OneBridgePerLoad ==
    /\ (geoOut # NoGeo /\ geoOut.op = "addDatelineBridges" /\ geoOut.calls = 2) =>
          /\ BridgeCount(geoOut.adjList)
               = 4 * Cardinality({ u \in SeqToSet(geoIn.nodes) : Matched(geoIn.nodes, u) })
          /\ \A u \in SeqToSet(geoIn.nodes) :
                Matched(geoIn.nodes, u) =>
                  /\ Len(BridgesFrom(geoOut.adjList[u.id], u.id)) = 2
                  /\ BridgesFrom(geoOut.adjList[u.id], u.id)[1]
                       = BridgesFrom(geoOut.adjList[u.id], u.id)[2]
    /\ BridgeCount(adjList) = 2 * Cardinality({ u \in SeqToSet(nodes) : Matched(nodes, u) })
    /\ \A u \in SeqToSet(nodes) :
          Matched(nodes, u) =>
            /\ Len(BridgesFrom(adjList[u.id], u.id)) = 1
            /\ LET v == BridgesFrom(adjList[u.id], u.id)[1].target
               IN  Len(SelectSeq(BridgesFrom(adjList[v], v), LAMBDA e : e.target = u.id)) = 1

\* C25 witness: the second call on one adjacency has doubled the bridges of
\* a matched pair.
C25_Witness ==
    /\ geoOut # NoGeo /\ geoOut.op = "addDatelineBridges" /\ geoOut.calls = 2
    /\ BridgeCount(geoOut.adjList) = 4
    /\ BridgeCount(addDatelineBridges(geoIn.nodes, geoIn.adjList)) = 2

\* C26: stitching turns the first non-empty geometry round exactly when its
\* last point is nearer the start anchor than its first point, and every
\* later one exactly when its last point is nearer the last point laid down
\* than its first point; the merged polyline is the points of the oriented
\* geometries in route order, a first point that coincides with the joint
\* being left out (a point repeated right after itself counts once).
C26_StitchOrientsSegments ==
    (geoOut # NoGeo /\ geoOut.op = "stitchRouteSegments") =>
      LET expected == OrientedRoute(geoIn.rawSegments, 1, geoIn.startAnchor, TRUE)
          merged   == Concat(geoOut.segments)
      IN  /\ Collapse(merged) = Collapse(expected)
          /\ Len(merged) >= Len(expected)
          /\ Len(geoOut.segments) = (IF expected = << >> THEN 0 ELSE 1)

\* C26 witness: both geometries were turned round, the first on the start
\* anchor and the second on the end of the first.
C26_Witness ==
    /\ geoOut # NoGeo /\ geoOut.op = "stitchRouteSegments"
    /\ geoIn.startAnchor = << -1799, 0 >>
    /\ geoIn.rawSegments = << << << 1799, 0 >>, << -1799, 0 >> >>,
                              << << -1798, 1 >>, << 1799, 0 >> >> >>
    /\ Collapse(geoOut.segments[1]) = << << -1799, 0 >>, << 1799, 0 >>, << -1798, 1 >> >>

C29_RouteWellFormed ==
    /\ (lastOp = "findPath" /\ ret.kind = "route") =>
          LET path == ret.pathNodeIds
          IN  /\ Len(path) >= 1
              /\ path[1] = PortNodeId(ports, call.origin)
              /\ path[Len(path)] = PortNodeId(ports, call.dest)
              /\ \A i \in 1..Len(path), j \in 1..Len(path) : i # j => path[i] # path[j]
              /\ Len(path) = Len(ret.edges) + 1
              /\ \A i \in 1..Len(ret.edges) :
                    \/ (ret.edges[i].source = path[i] /\ ret.edges[i].target = path[i + 1])
                    \/ (ret.edges[i].target = path[i] /\ ret.edges[i].source = path[i + 1])
    /\ solver.status = "found" =>
          LeadsBack(solver.previous, PortNodeId(ports, call.origin),
                    PortNodeId(ports, call.dest), Cardinality(DOMAIN solver.previous))

\* C29 witness: a route of four nodes was returned.
C29_Witness ==
    /\ lastOp = "findPath" /\ ret.kind = "route"
    /\ Len(ret.pathNodeIds) = 4
    /\ Len(ret.edges) = 3

\* the playback interval is installed for a route of positive total hours
Playing == isPlayback /\ playTimer.on /\ playTimer.totalHours > 0

\* the counter is back at the start of the route: a tick has just wrapped it
\* to less than one step, or the route effect has just set it to 0
Restarted ==
    \/ lastOp = "playbackTick" /\ playbackHours < stepHours
    \/ lastOp = "routeEffect" /\ ret.kind # "throw" /\ playbackHours = 0

\* C27 (as claimed): while playback is on and the total hours of the route
\* the interval runs for are positive, a tick sets the counter to previous +
\* step when that is below the total and to (previous + step) modulo the
\* total otherwise, so that 0 <= counter < total after it; the counter comes
\* back to the start of the route again and again for as long as playback
\* stays on; and a run of the route effect that calls findPath leaves the
\* counter at 0.
C27_PlaybackCounter ==
    /\ [][ (playbackTick /\ Playing) =>
              LET totalHours == playTimer.totalHours
                  next == playbackHours + stepHours
              IN  /\ playbackHours' = (IF next < totalHours THEN next ELSE next % totalHours)
                  /\ 0 <= playbackHours' /\ playbackHours' < totalHours ]_vars
    /\ [][ (routeEffect /\ call' # NoCall) => playbackHours' = 0 ]_vars
    /\ []<>(~Playing \/ Restarted)

====
